---- MODULE Spec2Model ----
(***************************************************************************)
(* The arithmetic multi-agent stack: the Experiment manager that brings    *)
(* the worker servers up, the host orchestrator that decomposes an         *)
(* expression into a plan and runs it against the remote operation         *)
(* clients, and the decimal/text helpers the numbers pass through.         *)
(***************************************************************************)
EXTENDS Integers, Sequences, FiniteSets, TLC

(***************************************************************************)
(* decimal.Decimal as the sources use it: a value is                       *)
(* [sign, int, exp] with int the coefficient as a big-endian digit         *)
(* sequence without leading zeros (<<0>> for zero), value                  *)
(* (-1)^sign * int * 10^exp.                                               *)
(***************************************************************************)
\* src/agent_system/MCP.py:11  DEFAULT_PRECISION = 28 ; getcontext().prec
DEFAULT_PRECISION == 28

RECURSIVE StripZeros(_)
StripZeros(d) ==
    IF Len(d) > 1 /\ d[1] = 0 THEN StripZeros(Tail(d)) ELSE d

RECURSIVE Zeros(_)
Zeros(n) == IF n <= 0 THEN <<>> ELSE <<0>> \o Zeros(n - 1)

RECURSIVE Rev(_)
Rev(s) == IF s = <<>> THEN <<>> ELSE Append(Rev(Tail(s)), Head(s))

RECURSIVE CmpSame(_, _)
CmpSame(a, b) ==
    IF a = <<>> THEN 0
    ELSE IF Head(a) < Head(b) THEN -1
    ELSE IF Head(a) > Head(b) THEN 1
    ELSE CmpSame(Tail(a), Tail(b))

\* comparison of two coefficients: -1, 0, 1
CmpInt(a, b) ==
    IF Len(a) < Len(b) THEN -1
    ELSE IF Len(a) > Len(b) THEN 1
    ELSE CmpSame(a, b)

RECURSIVE AddRev(_, _, _)
AddRev(ra, rb, c) ==
    IF ra = <<>> /\ rb = <<>> THEN (IF c = 0 THEN <<>> ELSE <<c>>)
    ELSE LET x == IF ra = <<>> THEN 0 ELSE Head(ra)
             y == IF rb = <<>> THEN 0 ELSE Head(rb)
             s == x + y + c
         IN  <<s % 10>> \o AddRev(IF ra = <<>> THEN <<>> ELSE Tail(ra),
                                  IF rb = <<>> THEN <<>> ELSE Tail(rb),
                                  s \div 10)

AddInt(a, b) == StripZeros(Rev(AddRev(Rev(a), Rev(b), 0)))

RECURSIVE SubRev(_, _, _)
SubRev(ra, rb, bw) ==
    IF ra = <<>> THEN <<>>
    ELSE LET y == IF rb = <<>> THEN 0 ELSE Head(rb)
             t == Head(ra) - y - bw
         IN  <<IF t < 0 THEN t + 10 ELSE t>>
             \o SubRev(Tail(ra), IF rb = <<>> THEN <<>> ELSE Tail(rb),
                       IF t < 0 THEN 1 ELSE 0)

\* a - b for a >= b
SubInt(a, b) == StripZeros(Rev(SubRev(Rev(a), Rev(b), 0)))

RECURSIVE MulSmallRev(_, _, _)
MulSmallRev(ra, k, c) ==
    IF ra = <<>> THEN (IF c = 0 THEN <<>> ELSE <<c>>)
    ELSE LET s == Head(ra) * k + c
         IN  <<s % 10>> \o MulSmallRev(Tail(ra), k, s \div 10)

MulSmall(a, k) == StripZeros(Rev(MulSmallRev(Rev(a), k, 0)) \o
                             (IF a = <<>> THEN <<0>> ELSE <<>>))

RECURSIVE MulAcc(_, _, _)
MulAcc(a, b, acc) ==
    IF b = <<>> THEN acc
    ELSE MulAcc(a, Tail(b),
                AddInt(StripZeros(Append(acc, 0)), MulSmall(a, Head(b))))

MulInt(a, b) == MulAcc(a, b, <<0>>)

\* the largest k in 0..9 with b*k <= r
QuotDigit(r, b) ==
    CHOOSE k \in 0..9 :
        /\ CmpInt(MulSmall(b, k), r) <= 0
        /\ (k = 9 \/ CmpInt(MulSmall(b, k + 1), r) > 0)

RECURSIVE DivLoop(_, _, _, _)
\* one step of the long division: the quotient digit k of the partial
\* remainder r1
DivDigit(a, b, q, r1, k) ==
    DivLoop(Tail(a), b, Append(q, k), SubInt(r1, MulSmall(b, k)))

DivBring(a, b, q, r1) == DivDigit(a, b, q, r1, QuotDigit(r1, b))

DivLoop(a, b, q, r) ==
    IF a = <<>> THEN [q |-> StripZeros(IF q = <<>> THEN <<0>> ELSE q), r |-> r]
    ELSE DivBring(a, b, q, StripZeros(Append(r, Head(a))))

\* divmod(a, b) on coefficients, b # 0
DivModInt(a, b) == DivLoop(a, b, <<>>, <<0>>)

IsZeroInt(d) == d = <<0>>

Dec(s, d, e) == [sign |-> s, int |-> d, exp |-> e]

IsZero(x) == IsZeroInt(x.int)

AllZeros(d, from) == \A i \in from..Len(d) : d[i] = 0

\* ROUND_HALF_EVEN on a coefficient of more than prec digits: TRUE when the
\* kept digits are incremented
RoundsUp(d) ==
    IF d[DEFAULT_PRECISION + 1] = 5 /\ AllZeros(d, DEFAULT_PRECISION + 2)
    THEN d[DEFAULT_PRECISION] % 2 = 1
    ELSE d[DEFAULT_PRECISION + 1] >= 5

\* the rounded coefficient c at exponent e; a carry out of the increment
\* drops one more digit
Rounded(s, c, e) ==
    IF Len(c) > DEFAULT_PRECISION
    THEN Dec(s, SubSeq(c, 1, DEFAULT_PRECISION), e + 1)
    ELSE Dec(s, c, e)

\* Decimal._fix with the default context (ROUND_HALF_EVEN, prec 28); the
\* exponent limits Emin/Emax (+-999999) are out of reach of the inputs.
Fix(x) ==
    IF IsZero(x) \/ Len(x.int) <= DEFAULT_PRECISION THEN x
    ELSE Rounded(x.sign,
                 IF RoundsUp(x.int)
                 THEN AddInt(SubSeq(x.int, 1, DEFAULT_PRECISION), <<1>>)
                 ELSE SubSeq(x.int, 1, DEFAULT_PRECISION),
                 x.exp + (Len(x.int) - DEFAULT_PRECISION))

\* coefficient of x rescaled to the (smaller or equal) exponent e
Scaled(x, e) == StripZeros(x.int \o Zeros(x.exp - e))

Min(a, b) == IF a < b THEN a ELSE b
Max(a, b) == IF a > b THEN a ELSE b

\* x rescaled to the exponent e
Rescaled(x, e) == Dec(x.sign, Scaled(x, e), e)

\* the exact sum of the coefficients a (sign sa) and b (sign sb) at the
\* common exponent e
AddAligned(sa, a, sb, b, e) ==
    IF sa = sb THEN Dec(sa, AddInt(a, b), e)
    ELSE IF CmpInt(a, b) = 0 THEN Dec(0, <<0>>, e)
    ELSE IF CmpInt(a, b) > 0 THEN Dec(sa, SubInt(a, b), e)
    ELSE Dec(sb, SubInt(b, a), e)

\* the sum before the final _fix
AddExact(x, y, e) ==
    IF IsZero(x) /\ IsZero(y) THEN Dec(Min(x.sign, y.sign), <<0>>, e)
    ELSE IF IsZero(x) THEN Rescaled(y, Max(e, y.exp - DEFAULT_PRECISION - 1))
    ELSE IF IsZero(y) THEN Rescaled(x, Max(e, x.exp - DEFAULT_PRECISION - 1))
    ELSE AddAligned(x.sign, Scaled(x, e), y.sign, Scaled(y, e), e)

\* Decimal.__add__ (default rounding, so an exact zero sum of opposite
\* signs is +0)
DecAdd(x, y) == Fix(AddExact(x, y, Min(x.exp, y.exp)))

DecNeg(x) == Dec(1 - x.sign, x.int, x.exp)

\* Decimal.__sub__
DecSub(x, y) == DecAdd(x, DecNeg(y))

Xor(a, b) == IF a = b THEN 0 ELSE 1

\* Decimal.__mul__
DecMul(x, y) ==
    IF IsZero(x) \/ IsZero(y) THEN Dec(Xor(x.sign, y.sign), <<0>>, x.exp + y.exp)
    ELSE Fix(Dec(Xor(x.sign, y.sign), MulInt(x.int, y.int), x.exp + y.exp))

RECURSIVE TrimExact(_, _, _)
TrimExact(c, e, ideal) ==
    IF e < ideal /\ Len(c) > 1 /\ c[Len(c)] = 0
    THEN TrimExact(SubSeq(c, 1, Len(c) - 1), e + 1, ideal)
    ELSE [c |-> c, e |-> e]

\* the coefficient c and the exponent e of a trimmed result, signed
Trimmed(s, t) == Dec(s, t.c, t.e)

\* the quotient dm.q at exponent e: inexact when a remainder is left (the
\* last digit is moved off 0 and 5 so that rounding sees it), otherwise
\* trimmed towards the ideal exponent
DivResult(s, dm, e, ideal) ==
    IF ~IsZeroInt(dm.r)
    THEN Dec(s, IF dm.q[Len(dm.q)] % 5 = 0 THEN AddInt(dm.q, <<1>>) ELSE dm.q, e)
    ELSE Trimmed(s, TrimExact(dm.q, e, ideal))

\* the division of the coefficients after the dividend (shift >= 0) or the
\* divisor is scaled by 10^|shift|
DivShifted(x, y, shift) ==
    DivResult(Xor(x.sign, y.sign),
              DivModInt(x.int \o Zeros(shift), y.int \o Zeros(-shift)),
              x.exp - y.exp - shift, x.exp - y.exp)

\* Decimal.__truediv__ for a non-zero divisor
DecDiv(x, y) ==
    IF IsZero(x) THEN Dec(Xor(x.sign, y.sign), <<0>>, x.exp - y.exp)
    ELSE Fix(DivShifted(x, y, Len(y.int) - Len(x.int) + DEFAULT_PRECISION + 1))

RECURSIVE TrimTrailing(_, _)
TrimTrailing(c, e) ==
    IF Len(c) > 1 /\ c[Len(c)] = 0
    THEN TrimTrailing(SubSeq(c, 1, Len(c) - 1), e + 1)
    ELSE [c |-> c, e |-> e]

StripTrailing(f) == Trimmed(f.sign, TrimTrailing(f.int, f.exp))

\* Decimal.normalize
Normalize(x) ==
    IF IsZero(x) THEN Dec(x.sign, <<0>>, 0)
    ELSE StripTrailing(Fix(x))

DigitChar(d) == CASE d = 0 -> "0" [] d = 1 -> "1" [] d = 2 -> "2" [] d = 3 -> "3"
                  [] d = 4 -> "4" [] d = 5 -> "5" [] d = 6 -> "6" [] d = 7 -> "7"
                  [] d = 8 -> "8" [] d = 9 -> "9"

DigitChars(ds) == [i \in 1..Len(ds) |-> DigitChar(ds[i])]

RECURSIVE Repeat(_, _)
Repeat(c, n) == IF n <= 0 THEN <<>> ELSE <<c>> \o Repeat(c, n - 1)

\* the digits before the point, for the digits ds and the point after
\* dotplace of them
IntPart(ds, dotplace) ==
    IF dotplace <= 0 THEN <<"0">>
    ELSE IF dotplace >= Len(ds) THEN ds \o Repeat("0", dotplace - Len(ds))
    ELSE SubSeq(ds, 1, dotplace)

\* the digits after the point
FracPart(ds, dotplace) ==
    IF dotplace < 0 THEN Repeat("0", -dotplace) \o ds
    ELSE IF dotplace >= Len(ds) THEN <<>>
    ELSE SubSeq(ds, dotplace + 1, Len(ds))

WithPoint(frac) == IF frac = <<>> THEN <<>> ELSE <<".">> \o frac

SignChars(s) == IF s = 1 THEN <<"-">> ELSE <<>>

\* format(value, "f")
FormatF(x) ==
    SignChars(x.sign) \o IntPart(DigitChars(x.int), x.exp + Len(x.int))
    \o WithPoint(FracPart(DigitChars(x.int), x.exp + Len(x.int)))

RECURSIVE RStrip(_, _)
RStrip(t, c) ==
    IF t # <<>> /\ t[Len(t)] = c THEN RStrip(SubSeq(t, 1, Len(t) - 1), c) ELSE t

Contains(t, c) == \E i \in 1..Len(t) : t[i] = c

StripFraction(text) ==
    IF Contains(text, ".") THEN RStrip(RStrip(text, "0"), ".") ELSE text

OrZero(text) == IF text = <<>> THEN <<"0">> ELSE text

\* format_decimal
format_decimal(value) == OrZero(StripFraction(FormatF(Normalize(value))))

RECURSIVE NatDigits(_)
NatDigits(n) == IF n < 10 THEN <<n>> ELSE Append(NatDigits(n \div 10), n % 10)

\* str(n) of a natural number
NatChars(n) == DigitChars(NatDigits(n))

(***************************************************************************)
(* Text is a sequence of one-character strings.  A literal of a message    *)
(* that holds no digit, sign or dot may stand as one element.              *)
(***************************************************************************)
DigitSet == {"0", "1", "2", "3", "4", "5", "6", "7", "8", "9"}

isdigit(ch) == ch \in DigitSet

isspace(ch) == ch = " "

DigitVal(ch) == CASE ch = "0" -> 0 [] ch = "1" -> 1 [] ch = "2" -> 2 [] ch = "3" -> 3
                  [] ch = "4" -> 4 [] ch = "5" -> 5 [] ch = "6" -> 6 [] ch = "7" -> 7
                  [] ch = "8" -> 8 [] ch = "9" -> 9

RECURSIVE LStrip(_)
LStrip(t) == IF t # <<>> /\ isspace(Head(t)) THEN LStrip(Tail(t)) ELSE t

StripNothing(t) == t

\* str.strip()
strip(t) == RStrip(LStrip(t), " ")

SelectDigits(t) == SelectSeq(t, isdigit)

DotCount(t) == Cardinality({i \in 1..Len(t) : t[i] = "."})

DotIndex(t) == CHOOSE i \in 1..Len(t) : t[i] = "."

NoDecimal == Dec(0, <<0>>, 0)

\* Decimal(text) for a text made of digits and dots, as the tokenizer and
\* the number pattern hand it over: at most one dot and at least one digit,
\* otherwise InvalidOperation
DecimalOfText(t) ==
    LET ds == SelectDigits(t) IN
    IF DotCount(t) > 1 \/ ds = <<>> THEN [ok |-> FALSE, val |-> NoDecimal]
    ELSE [ok  |-> TRUE,
          val |-> Dec(0, StripZeros([i \in 1..Len(ds) |-> DigitVal(ds[i])]),
                      IF DotCount(t) = 0 THEN 0 ELSE -(Len(t) - DotIndex(t)))]

\* str(Decimal)
DecStr(x) ==
    LET n          == Len(x.int)
        leftdigits == x.exp + n
        dotplace   == IF x.exp <= 0 /\ leftdigits > -6 THEN leftdigits ELSE 1
        ds         == DigitChars(x.int)
        intpart    == IF dotplace <= 0 THEN <<"0">>
                      ELSE IF dotplace >= n THEN ds \o Repeat("0", dotplace - n)
                      ELSE SubSeq(ds, 1, dotplace)
        fracpart   == IF dotplace <= 0 THEN <<".">> \o Repeat("0", -dotplace) \o ds
                      ELSE IF dotplace >= n THEN <<>>
                      ELSE <<".">> \o SubSeq(ds, dotplace + 1, n)
        e          == leftdigits - dotplace
        expo       == IF e = 0 THEN <<>>
                      ELSE <<"E", IF e > 0 THEN "+" ELSE "-">>
                           \o NatChars(IF e > 0 THEN e ELSE -e)
    IN  (IF x.sign = 1 THEN <<"-">> ELSE <<>>) \o intpart \o fracpart \o expo

(***************************************************************************)
(* The plan and the fallback tokenizer / parser of the host.               *)
(***************************************************************************)
Operations == {"add", "sub", "mul", "div"}

DecompositionStep(op, operand) == [operation |-> op, operand |-> operand]

DecompositionResult(initial, steps) == [initial_value |-> initial, steps |-> steps]

NoPlan == DecompositionResult(NoDecimal, <<>>)

NumTok(v) == [isnum |-> TRUE, num |-> v, op |-> ""]

OpTok(ch) == [isnum |-> FALSE, num |-> NoDecimal, op |-> ch]

RECURSIVE NumberEnd(_, _)
\* the inner while of the tokenizer: the first index from i on that holds
\* neither a digit nor a dot
NumberEnd(e, i) ==
    IF i <= Len(e) /\ (isdigit(e[i]) \/ e[i] = ".") THEN NumberEnd(e, i + 1) ELSE i

TokErr(msg) == [ok |-> FALSE, tokens |-> <<>>, err |-> msg]

RECURSIVE TokLoop(_, _, _, _, _)
\* the number text e[i..j-1] converted to v: the token Decimal(text) *
\* current_sign, and the sign is reset
TokValue(e, j, tokens, v, current_sign) ==
    IF ~v.ok THEN TokErr("Invalid number")
    ELSE TokLoop(e, j, Append(tokens, NumTok(DecMul(v.val, Dec(current_sign, <<1>>, 0)))),
                 FALSE, 0)

\* a number is expected at i and the digits and dots from i on end before j
TokNumber(e, i, j, tokens, current_sign) ==
    IF j = i THEN TokErr("Expected number")
    ELSE TokValue(e, j, tokens, DecimalOfText(SubSeq(e, i, j - 1)), current_sign)

TokLoopSignAnywhere(e, i, tokens, expect_number, current_sign) ==
    IF i > Len(e)
    THEN IF expect_number THEN TokErr("Expression cannot end with an operator")
         ELSE [ok |-> TRUE, tokens |-> tokens, err |-> ""]
    ELSE IF isspace(e[i]) THEN TokLoop(e, i + 1, tokens, expect_number, current_sign)
    ELSE IF expect_number
    THEN IF e[i] \in {"+", "-"}
         THEN TokLoop(e, i + 1, tokens, expect_number, IF e[i] = "+" THEN 0 ELSE 1)
         ELSE TokNumber(e, i, NumberEnd(e, i), tokens, current_sign)
    ELSE IF e[i] \notin {"+", "-", "*", "/"} THEN TokErr("Expected operator")
    ELSE TokLoop(e, i + 1, Append(tokens, OpTok(e[i])), TRUE, current_sign)

TokLoop(e, i, tokens, expect_number, current_sign) ==
    IF i > Len(e)
    THEN IF expect_number THEN TokErr("Expression cannot end with an operator")
         ELSE [ok |-> TRUE, tokens |-> tokens, err |-> ""]
    ELSE IF isspace(e[i]) THEN TokLoop(e, i + 1, tokens, expect_number, current_sign)
    ELSE IF expect_number
    THEN IF e[i] \in {"+", "-"} /\ tokens = <<>>
         THEN TokLoop(e, i + 1, tokens, expect_number, IF e[i] = "+" THEN 0 ELSE 1)
         ELSE TokNumber(e, i, NumberEnd(e, i), tokens, current_sign)
    ELSE IF e[i] \notin {"+", "-", "*", "/"} THEN TokErr("Expected operator")
    ELSE TokLoop(e, i + 1, Append(tokens, OpTok(e[i])), TRUE, current_sign)

\* current_sign is kept as the sign bit of the int 1 / -1 it multiplies by
_tokenize_expression(expression) == TokLoop(expression, 1, <<>>, TRUE, 0)

OpKeySwapped(operator) ==
    CASE operator = "+" -> "add"
      [] operator = "-" -> "add"
      [] operator = "*" -> "mul"
      [] operator = "/" -> "div"
      [] OTHER -> ""

OpKey(operator) ==
    CASE operator = "+" -> "add"
      [] operator = "-" -> "sub"
      [] operator = "*" -> "mul"
      [] operator = "/" -> "div"
      [] OTHER -> ""

ParseRes(kind, plan) == [kind |-> kind, plan |-> plan]

RECURSIVE ParseLoop(_, _, _, _)
\* kind "plan": a DecompositionResult; "none": None; "raise": IndexError
ParseLoop(tokens, first, idx, steps) ==
    IF idx > Len(tokens) THEN ParseRes("plan", DecompositionResult(first, steps))
    ELSE IF idx + 1 > Len(tokens) THEN ParseRes("raise", NoPlan)
    ELSE LET operator == tokens[idx]
             operand  == tokens[idx + 1]
         IN  IF operator.isnum \/ ~operand.isnum THEN ParseRes("none", NoPlan)
             ELSE IF OpKey(operator.op) = "" THEN ParseRes("none", NoPlan)
             ELSE ParseLoop(tokens, first, idx + 2,
                            Append(steps, DecompositionStep(OpKey(operator.op), operand.num)))

\* _fallback_parse after the tokenizer: None when it raised ValueError,
\* otherwise the plan built from tokens[0] and the operator / operand pairs
ParseTokens(t) ==
    IF ~t.ok THEN ParseRes("none", NoPlan)
    ELSE IF t.tokens = <<>> THEN ParseRes("raise", NoPlan)
    ELSE IF ~t.tokens[1].isnum THEN ParseRes("none", NoPlan)
    ELSE ParseLoop(t.tokens, t.tokens[1].num, 2, <<>>)

FallbackParseEmptyPlan(expression) ==
    IF ParseTokens(_tokenize_expression(expression)).kind = "plan"
    THEN ParseTokens(_tokenize_expression(expression))
    ELSE ParseRes("plan", DecompositionResult(NoDecimal, <<>>))

_fallback_parse(expression) == ParseTokens(_tokenize_expression(expression))

(***************************************************************************)
(* The remote operation client: prompt building and the extraction of the  *)
(* number from the reply text.                                             *)
(***************************************************************************)
SignSet == {"+", "-"}

\* the pattern [-+]?\d+(?:\.\d+)? can start a match at position p
MatchStartsAt(t, p) ==
    \/ isdigit(t[p])
    \/ t[p] \in SignSet /\ p + 1 <= Len(t) /\ isdigit(t[p + 1])

RECURSIVE DigitsEnd(_, _)
\* the first index from i on that does not hold a digit
DigitsEnd(t, i) == IF i <= Len(t) /\ isdigit(t[i]) THEN DigitsEnd(t, i + 1) ELSE i

\* the end (exclusive) of the match that starts at p
MatchEnd(t, p) ==
    LET d1 == IF t[p] \in SignSet THEN p + 1 ELSE p
        e1 == DigitsEnd(t, d1)
    IN  IF e1 + 1 <= Len(t) /\ t[e1] = "." /\ isdigit(t[e1 + 1])
        THEN DigitsEnd(t, e1 + 1)
        ELSE e1

MatchStarts(t) == {p \in 1..Len(t) : MatchStartsAt(t, p)}

SetMin(S) == CHOOSE x \in S : \A y \in S : x <= y

\* re.search(pattern, text).group(0): the leftmost match
SearchNumber(t) ==
    LET p == SetMin(MatchStarts(t)) IN SubSeq(t, p, MatchEnd(t, p) - 1)

\* Decimal(text) for a text the number pattern matched
DecimalOfMatch(m) ==
    LET signed == m[1] \in SignSet
        body   == IF signed THEN Tail(m) ELSE m
        v      == DecimalOfText(body).val
    IN  Dec(IF m[1] = "-" THEN 1 ELSE 0, v.int, v.exp)

ExtractRes(ok, val) == [ok |-> ok, val |-> val]

\* _extract_decimal on the text of the selected message
ExtractFromText(text) ==
    IF MatchStarts(text) = {} THEN ExtractRes(FALSE, NoDecimal)
    ELSE ExtractRes(TRUE, DecimalOfMatch(SearchNumber(text)))

\* MultiplicationClient.multiply
MultiplyPrompt(l, r) == [text |-> <<"Multiply ">> \o l \o <<" by ">> \o r, lhs |-> l, rhs |-> r]

\* DivisionClient.divide
DividePrompt(l, r) == [text |-> <<"Divide ">> \o l \o <<" by ">> \o r, lhs |-> l, rhs |-> r]

\* AdditionClient.add
AddPrompt(l, r) == [text |-> <<"Add ">> \o l \o <<" and ">> \o r, lhs |-> l, rhs |-> r]

\* SubtractionClient.subtract
SubtractPrompt(l, r) ==
    [text |-> <<"Subtract ">> \o r \o <<" from ">> \o l, lhs |-> l, rhs |-> r]

\* the prompt of the client of an operation for the formatted operands
PromptOf(op, l, r) ==
    CASE op = "add" -> AddPrompt(l, r)
      [] op = "sub" -> SubtractPrompt(l, r)
      [] op = "mul" -> MultiplyPrompt(l, r)
      [] op = "div" -> DividePrompt(l, r)

\* the request a client sends: both operands through format_decimal
ClientPrompt(op, lhs, rhs) == PromptOf(op, format_decimal(lhs), format_decimal(rhs))

(***************************************************************************)
(* The response of a remote agent as send_prompt receives it.              *)
(***************************************************************************)
\* an a2a Message: its role and the texts of its text parts
Message(role, parts) == [role |-> role, parts |-> parts]

\* None where a message may stand
NoMessage == Message("none", <<>>)

\* an a2a Task: its history and the message of its status
TaskResult(history, status) ==
    [isTask |-> TRUE, message |-> NoMessage, history |-> history, status |-> status]

\* a bare a2a Message as the result
MessageResult(m) ==
    [isTask |-> FALSE, message |-> m, history |-> <<>>, status |-> NoMessage]

RECURSIVE JoinLines(_)
JoinLines(parts) ==
    IF parts = <<>> THEN <<>>
    ELSE IF Len(parts) = 1 THEN parts[1]
    ELSE parts[1] \o <<"\n">> \o JoinLines(Tail(parts))

\* _message_to_text: the text parts joined by newlines
_message_to_text(message) == JoinLines(message.parts)

AgentIndexes(history) == {i \in 1..Len(history) : history[i].role = "agent"}

SetMax(S) == CHOOSE x \in S : \A y \in S : y <= x

\* the message _extract_decimal reads: for a Task the last agent-authored
\* item of the history and, only when there is none, the status message;
\* otherwise the result itself
SelectMessage(result) ==
    IF ~result.isTask THEN result.message
    ELSE IF AgentIndexes(result.history) # {}
    THEN result.history[SetMax(AgentIndexes(result.history))]
    ELSE result.status

\* how a call of send_prompt ends: a Decimal, or the text of the error
Outcome(ok, val, err) == [ok |-> ok, val |-> val, err |-> err]

\* the number found in the text, or the RuntimeError for none
TextOutcome(r) ==
    IF r.ok THEN Outcome(TRUE, r.val, <<>>)
    ELSE Outcome(FALSE, NoDecimal, <<"Unable to parse numeric result">>)

\* the selected message read, or the RuntimeError for none
MessageOutcome(m) ==
    IF m = NoMessage
    THEN Outcome(FALSE, NoDecimal, <<"Agent response did not include a message">>)
    ELSE TextOutcome(ExtractFromText(_message_to_text(m)))

\* _A2AArithmeticClient._extract_decimal
_extract_decimal(result) == MessageOutcome(SelectMessage(result))

\* the envelope send_message returns; kind "none" stands for no response
NoResponse == [kind |-> "none", message |-> "", result |-> MessageResult(NoMessage)]

\* JSONRPCErrorResponse with error.message
ErrorResponse(msg) == [kind |-> "error", message |-> msg, result |-> MessageResult(NoMessage)]

\* SendMessageSuccessResponse with its result
SuccessResponse(result) == [kind |-> "success", message |-> "", result |-> result]

ExtractIgnoringError(response) == _extract_decimal(response.result)

\* send_prompt from the response on: the error envelope raises with the
\* carried message, the success envelope goes to _extract_decimal
ResponseOutcome(response) ==
    IF response.kind = "error"
    THEN Outcome(FALSE, NoDecimal, <<"Remote agent error: ", response.message>>)
    ELSE _extract_decimal(response.result)

(***************************************************************************)
(* The arithmetic tools of the MCP server and the worker that wraps one    *)
(* of them behind a language-model agent.                                  *)
(***************************************************************************)
ToolRes(ok, text) == [ok |-> ok, text |-> text]

ValRes(ok, val) == [ok |-> ok, val |-> val]

\* the value add / subtract / multiply / divide of MCP.py compute on two
\* operands; not ok when the division raises
ToolValue(tool, a, b) ==
    CASE tool = "add" -> ValRes(TRUE, DecAdd(DecAdd(Dec(0, <<0>>, 0), a), b))
      [] tool = "sub" -> ValRes(TRUE, DecSub(a, b))
      [] tool = "mul" -> ValRes(TRUE, DecMul(a, b))
      [] tool = "div" -> IF IsZero(b) THEN ValRes(FALSE, NoDecimal)
                         ELSE ValRes(TRUE, DecDiv(a, b))

ToolText(v) ==
    IF v.ok THEN ToolRes(TRUE, DecStr(v.val))
    ELSE ToolRes(FALSE, <<"Division by zero is not allowed">>)

\* the text a tool returns: str(value), or the error of a failed division
McpTool(tool, a, b) == ToolText(ToolValue(tool, a, b))

\* _format_trace for a trace of one tool call
_format_trace(result, tool, args, observation) ==
    <<"Result: ">> \o result \o <<"\nSteps:\n  ", "1", ".", " thought='' action=", tool,
      " args={'operands': [">> \o args[1] \o <<", ">> \o args[2]
      \o <<"]} observation=">> \o observation

\* what the language model of a worker may make of a request; the text of
\* its answer is free
WorkerStyles == {"terse", "echo", "failed", "failed_payload"}

\* the message of the worker whose tool call returned the text observed
WorkerText(tool, prompt, style, observed) ==
    CASE style = "failed" ->
           <<"Failed to process request: No MCP tools available for LangGraph agent">>
      [] style = "failed_payload" ->
           <<"Failed to process request: LangGraph execution failed for payload ",
             "[{'role': 'user', 'content': '">> \o prompt.text \o <<"'}]">>
      [] style = "terse" ->
           _format_trace(observed, tool, <<prompt.lhs, prompt.rhs>>, observed)
      [] style = "echo" ->
           _format_trace(<<"The result for ">> \o prompt.lhs \o <<" and ">> \o prompt.rhs
                         \o <<" is ">> \o observed,
                         tool, <<prompt.lhs, prompt.rhs>>, observed)

\* MCPToolAgentExecutor.execute: the text of the one message it emits
WorkerReply(tool, prompt, style) ==
    WorkerText(tool, prompt, style,
               McpTool(tool, DecimalOfMatch(prompt.lhs), DecimalOfMatch(prompt.rhs)).text)

(***************************************************************************)
(* Configuration of the experiment and the environment keys it overrides.  *)
(***************************************************************************)
None == "None"

mcp_url == "http://127.0.0.1:18200/mcp"

addition_url == "http://127.0.0.1:18201"

subtraction_url == "http://127.0.0.1:18202"

host_url == "http://127.0.0.1:18203"

llm_model == "gpt-4o-mini"

EnvKeys == {"LLM_API_KEY", "LLM_MODEL", "MCP_SERVER_URL", "ADDITION_AGENT_URL",
            "SUBTRACTION_AGENT_URL", "A2A_HOST_PUBLIC_URL",
            "MULTIPLICATION_AGENT_URL", "DIVISION_AGENT_URL"}

\* the servers in the order Experiment.start brings them up
ServerOrder == <<"mcp", "addition", "subtraction", "host">>

ServerNames == {ServerOrder[i] : i \in 1..Len(ServerOrder)}

\* the servers in the order run_integration of test.py brings them up
TestOrder == <<"test_mcp", "test_addition", "test_subtraction">>

TestNames == {TestOrder[i] : i \in 1..Len(TestOrder)}

\* every handle (uvicorn server and its serve task) of the model
Handles == ServerNames \cup TestNames

\* no handle
NoHandle == ""

\* the address each server of the cluster listens on
ServerUrl(name) ==
    CASE name = "mcp" -> mcp_url
      [] name = "addition" -> addition_url
      [] name = "subtraction" -> subtraction_url
      [] name = "host" -> host_url

\* the tool the worker application built for a server name wraps
ServerTool(name) ==
    CASE name = "addition" -> "add"
      [] name = "subtraction" -> "sub"
      [] OTHER -> ""

\* os.getenv(key, default)
getenv(e, key, default) == IF e[key] = None THEN default ELSE e[key]

\* ArithmeticHostAgentExecutor.__post_init__: the address of each client
HostClientUrls(e) ==
    [op \in Operations |->
        CASE op = "add" -> getenv(e, "ADDITION_AGENT_URL", "http://localhost:9999")
          [] op = "sub" -> getenv(e, "SUBTRACTION_AGENT_URL", "http://localhost:10000")
          [] op = "mul" -> getenv(e, "MULTIPLICATION_AGENT_URL", "http://localhost:10001")
          [] op = "div" -> getenv(e, "DIVISION_AGENT_URL", "http://localhost:10002")]

NoClients == [op \in Operations |-> ""]

HasKey(overrides, key) == \E i \in 1..Len(overrides) : overrides[i].key = key

\* Experiment._set_env on the pair (environment, override record)
_set_env(st, key, value) ==
    [env |-> [st.env EXCEPT ![key] = value],
     overrides |-> IF HasKey(st.overrides, key) THEN st.overrides
                   ELSE Append(st.overrides, [key |-> key, previous |-> st.env[key]])]

RECURSIVE RestoreLoop(_, _)
RestoreLoop(e, overrides) ==
    IF overrides = <<>> THEN e
    ELSE LET last == overrides[Len(overrides)]
         IN  RestoreLoop([e EXCEPT ![last.key] = last.previous],
                         SubSeq(overrides, 1, Len(overrides) - 1))

\* Experiment._restore_env: the environment after the restore
_restore_env(e, overrides) == RestoreLoop(e, overrides)

(***************************************************************************)
(* Inputs.                                                                 *)
(***************************************************************************)
MaxExprLen == 3

ExprAlphabet == {"2", "3", "0", "+", "-", "*", "/", " ", ".", "x"}

NamedExpressions ==
    { <<"3", " ", "*", "*", " ", "2">>,
      <<"3", " ", "+">>,
      <<" ", " ">>,
      <<"1", "0", " ", "-", " ", "3", " ", "+", " ", "2">>,
      <<"1", "0", "+", "5", "-", "3", "+", "6">>,
      <<"6", "*", "2", "-", "4">>,
      <<"7", " ", "/", " ", "2">>,
      <<"9", "-", "4", "*", "2">>,
      <<"3", " ", "+", " ", "-", "2">> }

Expressions ==
    UNION {[1..n -> ExprAlphabet] : n \in 0..MaxExprLen} \cup NamedExpressions

D(n) == Dec(0, NatDigits(n), 0)

\* structured replies the planner may give whatever the expression is: a
\* schema-valid plan, and one whose operation is outside the pattern
FixedPlannerData ==
    { DecompositionResult(D(3), <<DecompositionStep("mul", D(3))>>),
      DecompositionResult(D(3), <<DecompositionStep("pow", D(2))>>) }

\* the plan of a parse as a set: empty when the parse gave none
PlanOf(p) == IF p.kind = "plan" THEN {p.plan} ELSE {}

\* the structured replies: the fixed ones and the plan the expression
\* itself reads as
PlannerData(expression) == FixedPlannerData \cup PlanOf(_fallback_parse(expression))

Reply(kind, data) == [kind |-> kind, data |-> data]

NoReply == Reply("none", NoPlan)

\* planner_llm.ainvoke: raises, returns text that is no JSON, or returns JSON
PlannerReplies(expression) ==
    {Reply("raise", NoPlan), Reply("text", NoPlan)}
    \cup {Reply("json", d) : d \in PlannerData(expression)}

\* the texts a message of a worker may carry
MaxTextLen == 3

TextAlphabet == {"1", "2", "-", ".", "x"}

Texts == UNION {[1..n -> TextAlphabet] : n \in 0..MaxTextLen}

\* the texts of the items of a task
TaskTexts == {<<"7">>, <<"x">>, <<"1", "x", "2">>}

Roles == {"agent", "user"}

MaxHistory == 2

Histories ==
    UNION {[1..n -> {Message(r, <<t>>) : r \in Roles, t \in TaskTexts}] : n \in 0..MaxHistory}

StatusMessages == {NoMessage} \cup {Message("agent", <<t>>) : t \in TaskTexts}

\* what payload.result may be
Results ==
    {MessageResult(Message("agent", <<t>>)) : t \in Texts}
    \cup {MessageResult(Message("user", <<<<"7">>>>)),
          MessageResult(Message("agent", <<<<"x">>, <<"2">>>>))}
    \cup {TaskResult(h, st) : h \in Histories, st \in StatusMessages}

\* what response.root may be
Responses == {ErrorResponse("boom")} \cup {SuccessResponse(r) : r \in Results}

\* one response of each kind: an error envelope, a text with a number, a
\* text without one
SampleResponses ==
    { ErrorResponse("boom"),
      SuccessResponse(MessageResult(Message("agent", <<<<"7">>>>))),
      SuccessResponse(MessageResult(Message("agent", <<<<"x">>>>))) }

\* the coroutines that call send_prompt on one client instance
MaxCallers == 2

Callers == 1..MaxCallers

\* the cancellation requests the host receives
MaxCancels == 1

(***************************************************************************)
(* Decomposition.                                                          *)
(***************************************************************************)
\* DecompositionResult.model_validate: the pattern of DecompositionStep
model_validate(data) ==
    \A i \in 1..Len(data.steps) : data.steps[i].operation \in Operations

DecompRes(ok, plan, err) == [ok |-> ok, plan |-> plan, err |-> err]

JsonErrText == <<"Expecting value: line ", "1", " column ", "1", " (char ", "0", ")">>

ValidationErrText ==
    <<"1", " validation error for DecompositionResult\n",
      "String should match pattern '^(add|sub|mul|div)$'">>

\* the except branch of _decompose_with_llm: the fallback's plan, the
\* ValueError when it gave None, or the error the fallback itself raised
FallbackOutcome(reply, p) ==
    IF p.kind = "raise" THEN DecompRes(FALSE, NoPlan, <<"list index out of range">>)
    ELSE IF p.kind = "none"
    THEN DecompRes(FALSE, NoPlan,
                   <<"Invalid decomposition response: ">> \o
                   (IF reply.kind = "text" THEN JsonErrText ELSE ValidationErrText))
    ELSE DecompRes(TRUE, p.plan, <<>>)

DecomposeFallbackOnRaise(expression, reply) ==
    IF reply.kind = "json" /\ model_validate(reply.data)
    THEN DecompRes(TRUE, reply.data, <<>>)
    ELSE FallbackOutcome(reply, _fallback_parse(expression))

DecomposeUnvalidated(expression, reply) ==
    IF reply.kind = "raise" THEN DecompRes(FALSE, NoPlan, <<"planner call failed">>)
    ELSE IF reply.kind = "json" THEN DecompRes(TRUE, reply.data, <<>>)
    ELSE FallbackOutcome(reply, _fallback_parse(expression))

\* _decompose_with_llm from the planner's reply on; err is the text of the
\* exception it raises
_decompose_with_llm(expression, reply) ==
    IF reply.kind = "raise" THEN DecompRes(FALSE, NoPlan, <<"planner call failed">>)
    ELSE IF reply.kind = "json" /\ model_validate(reply.data)
    THEN DecompRes(TRUE, reply.data, <<>>)
    ELSE FallbackOutcome(reply, _fallback_parse(expression))

(***************************************************************************)
(* State.                                                                  *)
(***************************************************************************)
VARIABLES
    cfg_llm_api_key,  \* ExperimentConfig.llm_api_key
    env,              \* os.environ on the keys of EnvKeys
    _env_overrides,   \* Experiment._env_overrides, in insertion order
    _handles,         \* Experiment._handles: the names of the handles
    _host_client,     \* Experiment._host_client is not None
    _started,         \* Experiment._started
    startPc,          \* position of a call of Experiment.start
    started,          \* the local list `started` of Experiment.start
    servers,          \* per handle: "none", "starting", "serving", "stopped"
    task,             \* per handle: the state of the task of server.serve()
    should_exit,      \* per handle: server.should_exit
    force_exit,       \* per handle: server.force_exit
    waitOn,           \* the handle whose stop_uvicorn awaits wait_for
    stopLog,          \* how the calls of stop_uvicorn ended, in order
    reversedLeft,     \* items the reversed() iterator at hand has yet to give
    stopPc,           \* position of a call of Experiment.stop
    testPc,           \* position of run_integration of test.py
    test_servers,     \* the local list `servers` of run_integration
    clientUrl,        \* the address of each client of the host executor
    expResult,        \* how the last call of start / stop ended; "none" once
                      \* execute has run since
    env_at_start,     \* os.environ as the last call of start found it
    cancel_queue,     \* the event queue of the cancellation requests to the host
    _lock,            \* _MCPAgentRunner._lock: the set of its holder, a call or none
    _initialized,     \* LangGraphReactAgent._initialized
    _trace,           \* LangGraphReactAgent._trace: the call whose handle_task built it
    shutdownPc,       \* position of a call of _MCPAgentRunner.shutdown
    workerPc,         \* per call of MCPToolAgentExecutor.execute: its position
    workerInput,      \* per call of execute: the user input
    workerEvents,     \* per call of execute: the events it enqueued
    workerTrace,      \* per call of execute: the trace run returned to it
    start2Pc,         \* position of a second call of Experiment.start
    started2,         \* the local list `started` of the second call
    servers2,         \* per name: the server object of the second call
    user_input,       \* execute: context.get_user_input()
    expression,       \* execute: the stripped user input
    hasIds,           \* execute: task_id and context_id are both set
    pc,               \* execute: position of the run
    plannerReply,     \* what planner_llm.ainvoke gave back
    plannerCalls,     \* number of planner invocations of the run
    plan,             \* execute: the DecompositionResult
    idx,              \* execute: index of the step at hand
    current,          \* execute: the running value
    events,           \* the events enqueued by the run, in order
    calls,            \* the remote operation calls of the run, in order
    _client,          \* _A2AArithmeticClient._client is not None
    clientBuilds,     \* number of A2AClient objects built for the instance
    callerPc,         \* per caller: position of its call of send_prompt
    lastResponse,     \* the response the call that ended last received
    lastOutcome       \* how the call that ended last ended

hdlVars == <<task, should_exit, force_exit, waitOn, stopLog, reversedLeft, stopPc, testPc,
             test_servers>>

\* the state of the Experiment but the outcome of its last call
expRest == <<cfg_llm_api_key, env, _env_overrides, _handles, _host_client, _started,
             startPc, started, servers, clientUrl, env_at_start, hdlVars>>

expVars == <<expRest, expResult>>

runVars == <<user_input, expression, hasIds, pc, plannerReply, plannerCalls, plan, idx, current,
             events, calls>>

cliVars == <<_client, clientBuilds, callerPc, lastResponse, lastOutcome>>

vars == <<cfg_llm_api_key, env, _env_overrides, _handles, _host_client, _started,
          startPc, started, servers, clientUrl, expResult,
          user_input, expression, hasIds, pc, plannerReply, plannerCalls, plan, idx,
          current, events, calls,
          _client, clientBuilds, callerPc, lastResponse, lastOutcome,
          task, should_exit, force_exit, waitOn, stopLog, reversedLeft, stopPc, testPc,
          test_servers, env_at_start, cancel_queue,
          _lock, _initialized, _trace, shutdownPc, workerPc, workerInput, workerEvents,
          workerTrace, start2Pc, started2, servers2>>

\* the state of one MCPToolAgentExecutor: its runner and the calls of execute
wkVars == <<_lock, _initialized, _trace, shutdownPc, workerPc, workerInput, workerEvents,
            workerTrace>>

\* the state of a call of Experiment.start that overlaps another one
ovVars == <<start2Pc, started2, servers2>>

Terminal == {"completed", "failed", "returned", "raised"}

Event(type, kind, state, final, step, text) ==
    [type |-> type, kind |-> kind, state |-> state, final |-> final,
     step |-> step, text |-> text]

\* new_agent_text_message enqueued as it is
TextMessage(kind, text) == Event("message", kind, "none", FALSE, 0, text)

\* send_status of execute: a TaskStatusUpdateEvent when the request carries
\* a task id and a context id, a plain message otherwise
send_status(ids, kind, state, final, step, text) ==
    IF ~ids THEN Event("message", kind, "none", FALSE, step, text)
    ELSE Event("status", kind, state, final, step, text)

symbol_map(operation) ==
    CASE operation = "add" -> "+"
      [] operation = "sub" -> "-"
      [] operation = "mul" -> "*"
      [] operation = "div" -> "/"
      [] OTHER -> operation

RECURSIVE PlanLines(_, _)
PlanLines(steps, i) ==
    IF i > Len(steps) THEN <<>>
    ELSE <<"\n  ">> \o NatChars(i) \o <<".", " ", symbol_map(steps[i].operation), " ">>
         \o format_decimal(steps[i].operand) \o PlanLines(steps, i + 1)

\* the text of the plan announcement
PlanText(p) ==
    <<"Plan:", "\n  start = ">> \o format_decimal(p.initial_value) \o PlanLines(p.steps, 1)

\* the text of the status event of step i
StepText(i, cur, operation, operand, result) ==
    <<"Step ">> \o NatChars(i) \o <<":", " ">> \o format_decimal(cur)
    \o <<" ", symbol_map(operation), " ">> \o format_decimal(operand)
    \o <<" = ">> \o format_decimal(result)

Call(i, op, lhs, rhs, url, at) ==
    [step |-> i, op |-> op, lhs |-> lhs, rhs |-> rhs, url |-> url, issuedAt |-> at,
     status |-> "inflight", style |-> "none", result |-> NoDecimal]

StepCallFromStart(p, i, cur, urls, at) ==
    Call(i, p.steps[i].operation, p.initial_value, p.steps[i].operand,
         urls[p.steps[i].operation], at)

\* the call the loop of execute issues for step i: the client of the step's
\* operation, the running value and the step's operand
StepCall(p, i, cur, urls, at) ==
    Call(i, p.steps[i].operation, cur, p.steps[i].operand, urls[p.steps[i].operation], at)

NoAnnouncement(ids, p) == <<>>

\* the events that announce the plan before the loop
PlanAnnouncement(ids, p) == <<send_status(ids, "plan", "working", FALSE, 0, PlanText(p))>>

\* the tool of the worker that serves at an address, "" when none does
WorkerAt(url) ==
    IF \E n \in ServerNames : servers[n] = "serving" /\ ServerUrl(n) = url /\ ServerTool(n) # ""
    THEN ServerTool(CHOOSE n \in ServerNames :
                        servers[n] = "serving" /\ ServerUrl(n) = url /\ ServerTool(n) # "")
    ELSE ""

\* one remote call end to end: the client's prompt, the reply of the
\* worker that serves at the call's address, and _extract_decimal on it
CallOutcome(c, style) ==
    ExtractFromText(WorkerReply(WorkerAt(c.url), ClientPrompt(c.op, c.lhs, c.rhs), style))

InitialEnvs ==
    { [k \in EnvKeys |-> None],
      [k \in EnvKeys |-> IF k = "LLM_API_KEY" THEN "sk-env"
                         ELSE IF k = "ADDITION_AGENT_URL" THEN "http://localhost:9999"
                         ELSE None] }

\* asyncio.Lock(): nobody holds it
Unlocked == {}

\* the holder of the lock that is a call of shutdown
ShutdownCall == MaxCallers + 1

\* LangGraphReactAgent._trace as constructed: the empty list
NoTrace == <<>>

\* _MCPAgentRunner.__post_init__: the agent is not initialised, the lock
\* is free, no call of execute is under way
WorkerIdle ==
    /\ _lock = Unlocked
    /\ _initialized = FALSE
    /\ _trace = NoTrace
    /\ shutdownPc = "idle"
    /\ workerPc = [c \in Callers |-> "idle"]
    /\ workerInput = [c \in Callers |-> <<>>]
    /\ workerEvents = [c \in Callers |-> <<>>]
    /\ workerTrace = [c \in Callers |-> NoTrace]

\* no second call of start
OverlapIdle ==
    /\ start2Pc = "idle"
    /\ started2 = <<>>
    /\ servers2 = [n \in ServerNames |-> "none"]

RunIdle ==
    /\ user_input = <<>>
    /\ expression = <<>>
    /\ hasIds = FALSE
    /\ pc = "idle"
    /\ plannerReply = NoReply
    /\ plannerCalls = 0
    /\ plan = NoPlan
    /\ idx = 0
    /\ current = NoDecimal
    /\ events = <<>>
    /\ calls = <<>>

\* no server object exists, nothing is starting or stopping
HandlesIdle ==
    /\ servers = [n \in Handles |-> "none"]
    /\ task = [n \in Handles |-> "none"]
    /\ should_exit = [n \in Handles |-> FALSE]
    /\ force_exit = [n \in Handles |-> FALSE]
    /\ waitOn = NoHandle
    /\ stopLog = <<>>
    /\ reversedLeft = 0
    /\ stopPc = "idle"
    /\ testPc = "idle"
    /\ test_servers = <<>>

\* _A2AArithmeticClient.__init__: no client yet, nobody calling
ClientIdle ==
    /\ _client = FALSE
    /\ clientBuilds = 0
    /\ callerPc = [c \in Callers |-> "idle"]
    /\ lastResponse = NoResponse
    /\ lastOutcome = Outcome(FALSE, NoDecimal, <<>>)

\* a configuration that carries a key meets an environment that holds one
\* too: the override of a key that is present
Init ==
    /\ cfg_llm_api_key \in {None, "sk-cfg"}
    /\ env \in InitialEnvs
    /\ cfg_llm_api_key # None => env["LLM_API_KEY"] # None
    /\ env_at_start = env
    /\ _env_overrides = <<>>
    /\ _handles = <<>>
    /\ _host_client = FALSE
    /\ _started = FALSE
    /\ startPc = "idle"
    /\ started = <<>>
    /\ HandlesIdle
    /\ clientUrl = NoClients
    /\ expResult = "none"
    /\ RunIdle
    /\ ClientIdle
    /\ cancel_queue = <<>>
    /\ WorkerIdle
    /\ OverlapIdle

(***************************************************************************)
(* Experiment.start / Experiment.stop                                      *)
(***************************************************************************)
\* the overrides start applies, in order (LLM_API_KEY only from the config)
StartOverrides ==
    (IF cfg_llm_api_key # None THEN <<[key |-> "LLM_API_KEY", value |-> cfg_llm_api_key]>>
     ELSE <<>>)
    \o << [key |-> "LLM_MODEL", value |-> llm_model],
          [key |-> "MCP_SERVER_URL", value |-> mcp_url],
          [key |-> "ADDITION_AGENT_URL", value |-> addition_url],
          [key |-> "SUBTRACTION_AGENT_URL", value |-> subtraction_url],
          [key |-> "A2A_HOST_PUBLIC_URL", value |-> host_url] >>

RECURSIVE ApplyOverrides(_, _)
ApplyOverrides(st, kvs) ==
    IF kvs = <<>> THEN st
    ELSE ApplyOverrides(_set_env(st, Head(kvs).key, Head(kvs).value), Tail(kvs))

\* start: no credential in the configuration nor in the environment
StartConfigError ==
    /\ startPc = "idle" /\ ~_started /\ stopPc = "idle" /\ testPc = "idle"
    /\ cfg_llm_api_key = None /\ env["LLM_API_KEY"] = None
    /\ expResult' = "config_error"
    /\ UNCHANGED <<cfg_llm_api_key, env_at_start, env, _env_overrides, _handles, _host_client, _started,
                   startPc, started, servers, clientUrl, task, should_exit, force_exit, waitOn,
                   stopLog, reversedLeft, stopPc, testPc, test_servers>>
    /\ UNCHANGED <<runVars, cliVars, cancel_queue, wkVars, ovVars>>

StartBeginUnchecked ==
    /\ startPc = "idle" /\ ~_started /\ stopPc = "idle" /\ testPc = "idle"
    /\ LET st == ApplyOverrides([env |-> env, overrides |-> _env_overrides], StartOverrides)
       IN  /\ env' = st.env
           /\ _env_overrides' = st.overrides
           /\ clientUrl' = HostClientUrls(st.env)
    /\ started' = <<>>
    /\ servers' = [n \in Handles |-> "none"]
    /\ task' = [n \in Handles |-> "none"]
    /\ should_exit' = [n \in Handles |-> FALSE]
    /\ force_exit' = [n \in Handles |-> FALSE]
    /\ stopLog' = <<>>
    /\ startPc' = "launch"
    /\ expResult' = "none"
    /\ env_at_start' = env
    /\ UNCHANGED <<cfg_llm_api_key, _handles, _host_client, _started, waitOn, reversedLeft,
                   stopPc, testPc, test_servers>>
    /\ UNCHANGED <<runVars, cliVars, cancel_queue, wkVars, ovVars>>

\* start up to the first call of start_uvicorn: the overrides and the
\* applications (the host executor reads its client addresses here); the
\* server objects of an earlier start are gone
StartBegin ==
    /\ startPc = "idle" /\ ~_started /\ stopPc = "idle" /\ testPc = "idle"
    /\ ~(cfg_llm_api_key = None /\ env["LLM_API_KEY"] = None)
    /\ LET st == ApplyOverrides([env |-> env, overrides |-> _env_overrides], StartOverrides)
       IN  /\ env' = st.env
           /\ _env_overrides' = st.overrides
           /\ clientUrl' = HostClientUrls(st.env)
    /\ started' = <<>>
    /\ servers' = [n \in Handles |-> "none"]
    /\ task' = [n \in Handles |-> "none"]
    /\ should_exit' = [n \in Handles |-> FALSE]
    /\ force_exit' = [n \in Handles |-> FALSE]
    /\ stopLog' = <<>>
    /\ startPc' = "launch"
    /\ expResult' = "none"
    /\ env_at_start' = env
    /\ UNCHANGED <<cfg_llm_api_key, _handles, _host_client, _started, waitOn, reversedLeft,
                   stopPc, testPc, test_servers>>
    /\ UNCHANGED <<runVars, cliVars, cancel_queue, wkVars, ovVars>>

\* start applies its overrides and one of the build_..._app calls raises:
\* the exception leaves start, which has no handler around these calls
StartBuildRaises ==
    /\ startPc = "idle" /\ ~_started /\ stopPc = "idle" /\ testPc = "idle"
    /\ ~(cfg_llm_api_key = None /\ env["LLM_API_KEY"] = None)
    /\ LET st == ApplyOverrides([env |-> env, overrides |-> _env_overrides], StartOverrides)
       IN  /\ env' = st.env
           /\ _env_overrides' = st.overrides
    /\ env_at_start' = env
    /\ expResult' = "build_failed"
    /\ UNCHANGED <<cfg_llm_api_key, _handles, _host_client, _started, startPc, started, servers,
                   clientUrl, task, should_exit, force_exit, waitOn, stopLog, reversedLeft,
                   stopPc, testPc, test_servers>>
    /\ UNCHANGED <<runVars, cliVars, cancel_queue, wkVars, ovVars>>

StartNoopRelaunches ==
    /\ _started /\ startPc = "idle" /\ stopPc = "idle" /\ pc = "idle"
    /\ expResult' = "start_noop"
    /\ startPc' = "launch"
    /\ started' = <<>>
    /\ UNCHANGED <<cfg_llm_api_key, env_at_start, env, _env_overrides, _handles, _host_client,
                   _started, servers, clientUrl, task, should_exit, force_exit,
                   waitOn, stopLog, reversedLeft, stopPc, testPc, test_servers>>
    /\ UNCHANGED <<runVars, cliVars, cancel_queue, wkVars, ovVars>>

\* start on a started Experiment returns at once
StartNoop ==
    /\ _started /\ startPc = "idle" /\ stopPc = "idle" /\ pc = "idle"
    /\ expResult' = "start_noop"
    /\ UNCHANGED <<cfg_llm_api_key, env_at_start, env, _env_overrides, _handles, _host_client,
                   _started, startPc, started, servers, clientUrl, task, should_exit, force_exit,
                   waitOn, stopLog, reversedLeft, stopPc, testPc, test_servers>>
    /\ UNCHANGED <<runVars, cliVars, cancel_queue, wkVars, ovVars>>

\* start_uvicorn up to its first sleep: the server object and the task of
\* server.serve() exist, the polling begins
LaunchServer ==
    /\ startPc = "launch"
    /\ task' = [task EXCEPT ![ServerOrder[Len(started) + 1]] = "running"]
    /\ servers' = [servers EXCEPT ![ServerOrder[Len(started) + 1]] = "starting"]
    /\ startPc' = "starting"
    /\ UNCHANGED <<cfg_llm_api_key, env_at_start, env, _env_overrides, _handles, _host_client, _started,
                   started, clientUrl, expResult, should_exit, force_exit, waitOn, stopLog,
                   reversedLeft, stopPc, testPc, test_servers>>
    /\ UNCHANGED <<runVars, cliVars, cancel_queue, wkVars, ovVars>>

\* start_uvicorn raises before it has a task (uvicorn.Config /
\* uvicorn.Server): start goes to its except branch
LaunchRaises ==
    /\ startPc = "launch"
    /\ startPc' = "rollback"
    /\ reversedLeft' = Len(started)
    /\ UNCHANGED <<cfg_llm_api_key, env_at_start, env, _env_overrides, _handles, _host_client, _started,
                   started, servers, clientUrl, expResult, task, should_exit, force_exit,
                   waitOn, stopLog, stopPc, testPc, test_servers>>
    /\ UNCHANGED <<runVars, cliVars, cancel_queue, wkVars, ovVars>>

\* server.serve() has bound its socket and sets server.started
ServeStarts ==
    /\ \E n \in Handles :
        /\ task[n] = "running" /\ servers[n] = "starting"
        /\ servers' = [servers EXCEPT ![n] = "serving"]
    /\ UNCHANGED <<cfg_llm_api_key, env_at_start, env, _env_overrides, _handles, _host_client, _started,
                   startPc, started, clientUrl, expResult, task, should_exit, force_exit,
                   waitOn, stopLog, reversedLeft, stopPc, testPc, test_servers>>
    /\ UNCHANGED <<runVars, cliVars, cancel_queue, wkVars, ovVars>>

ServeTaskFailsNoticed ==
    /\ \E n \in Handles :
        /\ task[n] = "running" /\ servers[n] = "starting"
        /\ task' = [task EXCEPT ![n] = "raised"]
    /\ startPc' = IF startPc = "starting" THEN "rollback" ELSE startPc
    /\ reversedLeft' = Len(started)
    /\ UNCHANGED <<cfg_llm_api_key, env_at_start, env, _env_overrides, _handles, _host_client, _started,
                   started, servers, clientUrl, expResult, should_exit, force_exit, waitOn,
                   stopLog, stopPc, testPc, test_servers>>
    /\ UNCHANGED <<runVars, cliVars, cancel_queue, wkVars, ovVars>>

\* server.serve() ends with an error before it set server.started
ServeTaskFails ==
    /\ \E n \in Handles :
        /\ task[n] = "running" /\ servers[n] = "starting"
        /\ task' = [task EXCEPT ![n] = "raised"]
    /\ UNCHANGED <<cfg_llm_api_key, env_at_start, env, _env_overrides, _handles, _host_client, _started,
                   startPc, started, servers, clientUrl, expResult, should_exit, force_exit,
                   waitOn, stopLog, reversedLeft, stopPc, testPc, test_servers>>
    /\ UNCHANGED <<runVars, cliVars, cancel_queue, wkVars, ovVars>>

\* the polling loop of start_uvicorn sees server.started and returns the
\* handle; start appends it and goes on to the next server or finishes
ServerReady ==
    /\ startPc = "starting"
    /\ servers[ServerOrder[Len(started) + 1]] = "serving"
    /\ started' = Append(started, ServerOrder[Len(started) + 1])
    /\ IF Len(started) + 1 < Len(ServerOrder)
       THEN /\ startPc' = "launch"
            /\ UNCHANGED <<_handles, _host_client, _started, expResult>>
       ELSE /\ _handles' = _handles \o Append(started, ServerOrder[Len(started) + 1])
            /\ _host_client' = TRUE
            /\ _started' = TRUE
            /\ startPc' = "idle"
            /\ expResult' = "started"
    /\ UNCHANGED <<cfg_llm_api_key, env_at_start, env, _env_overrides, servers, clientUrl, task, should_exit,
                   force_exit, waitOn, stopLog, reversedLeft, stopPc, testPc, test_servers>>
    /\ UNCHANGED <<runVars, cliVars, cancel_queue, wkVars, ovVars>>

\* stop_uvicorn up to its wait_for: graceful shutdown is requested
BeginStop(n) ==
    /\ should_exit' = [should_exit EXCEPT ![n] = TRUE]
    /\ waitOn' = n

RollbackNextForward ==
    /\ startPc = "rollback" /\ waitOn = NoHandle
    /\ reversedLeft > 0
    /\ BeginStop(started[Len(started) - reversedLeft + 1])
    /\ reversedLeft' = reversedLeft - 1
    /\ UNCHANGED <<cfg_llm_api_key, env_at_start, env, _env_overrides, _handles, _host_client, _started,
                   startPc, started, servers, clientUrl, expResult, task, force_exit, stopLog,
                   stopPc, testPc, test_servers>>
    /\ UNCHANGED <<runVars, cliVars, cancel_queue, wkVars, ovVars>>

\* the except branch of start: stop_uvicorn for the next handle of
\* reversed(started)
RollbackNext ==
    /\ startPc = "rollback" /\ waitOn = NoHandle
    /\ reversedLeft > 0
    /\ BeginStop(started[reversedLeft])
    /\ reversedLeft' = reversedLeft - 1
    /\ UNCHANGED <<cfg_llm_api_key, env_at_start, env, _env_overrides, _handles, _host_client, _started,
                   startPc, started, servers, clientUrl, expResult, task, force_exit, stopLog,
                   stopPc, testPc, test_servers>>
    /\ UNCHANGED <<runVars, cliVars, cancel_queue, wkVars, ovVars>>

\* the except branch of start after the loop: the environment is restored
\* and the exception raised again
RollbackEnds ==
    /\ startPc = "rollback" /\ waitOn = NoHandle
    /\ reversedLeft = 0
    /\ env' = _restore_env(env, _env_overrides)
    /\ _env_overrides' = <<>>
    /\ startPc' = "idle"
    /\ expResult' = "start_failed"
    /\ UNCHANGED <<cfg_llm_api_key, env_at_start, _handles, _host_client, _started, started, servers,
                   clientUrl, task, should_exit, force_exit, waitOn, stopLog, reversedLeft,
                   stopPc, testPc, test_servers>>
    /\ UNCHANGED <<runVars, cliVars, cancel_queue, wkVars, ovVars>>

\* stop on an Experiment that is not started returns at once
StopNoop ==
    /\ ~_started /\ startPc = "idle" /\ stopPc = "idle" /\ testPc = "idle"
    /\ expResult' = "stop_noop"
    /\ UNCHANGED <<cfg_llm_api_key, env_at_start, env, _env_overrides, _handles, _host_client,
                   _started, startPc, started, servers, clientUrl, task, should_exit, force_exit,
                   waitOn, stopLog, reversedLeft, stopPc, testPc, test_servers>>
    /\ UNCHANGED <<runVars, cliVars, cancel_queue, wkVars, ovVars>>

\* stop of a started experiment: closing the host client raises and the
\* exception leaves stop before the client is dropped or a server stopped
StopCloseRaises ==
    /\ _started /\ startPc = "idle" /\ stopPc = "idle" /\ pc = "idle"
    /\ _host_client
    /\ expResult' = "stop_failed"
    /\ UNCHANGED <<cfg_llm_api_key, env_at_start, env, _env_overrides, _handles, _host_client,
                   _started, startPc, started, servers, clientUrl, task, should_exit, force_exit,
                   waitOn, stopLog, reversedLeft, stopPc, testPc, test_servers>>
    /\ UNCHANGED <<runVars, cliVars, cancel_queue, wkVars, ovVars>>

\* stop of a started experiment up to its loop: the host client is closed
StopBegin ==
    /\ _started /\ startPc = "idle" /\ stopPc = "idle" /\ pc = "idle"
    /\ _host_client' = FALSE
    /\ stopPc' = "stopping"
    /\ UNCHANGED <<cfg_llm_api_key, env_at_start, env, _env_overrides, _handles, _started, startPc, started,
                   servers, clientUrl, expResult, task, should_exit, force_exit, waitOn,
                   stopLog, reversedLeft, testPc, test_servers>>
    /\ UNCHANGED <<runVars, cliVars, cancel_queue, wkVars, ovVars>>

StopNextOldestFirst ==
    /\ stopPc = "stopping" /\ waitOn = NoHandle
    /\ _handles # <<>>
    /\ BeginStop(_handles[1])
    /\ _handles' = SubSeq(_handles, 2, Len(_handles))
    /\ UNCHANGED <<cfg_llm_api_key, env_at_start, env, _env_overrides, _host_client, _started, startPc,
                   started, servers, clientUrl, expResult, task, force_exit, stopLog,
                   reversedLeft, stopPc, testPc, test_servers>>
    /\ UNCHANGED <<runVars, cliVars, cancel_queue, wkVars, ovVars>>

\* the loop of stop: the last handle is popped and stop_uvicorn called
StopNext ==
    /\ stopPc = "stopping" /\ waitOn = NoHandle
    /\ _handles # <<>>
    /\ BeginStop(_handles[Len(_handles)])
    /\ _handles' = SubSeq(_handles, 1, Len(_handles) - 1)
    /\ UNCHANGED <<cfg_llm_api_key, env_at_start, env, _env_overrides, _host_client, _started, startPc,
                   started, servers, clientUrl, expResult, task, force_exit, stopLog,
                   reversedLeft, stopPc, testPc, test_servers>>
    /\ UNCHANGED <<runVars, cliVars, cancel_queue, wkVars, ovVars>>

StopEndsAtFailure ==
    /\ stopPc = "stopping" /\ waitOn = NoHandle
    /\ IF _handles = <<>> THEN TRUE ELSE stopLog # <<>> /\ stopLog[Len(stopLog)].outcome = "raised"
    /\ env' = _restore_env(env, _env_overrides)
    /\ _env_overrides' = <<>>
    /\ _started' = FALSE
    /\ stopPc' = "idle"
    /\ expResult' = "stopped"
    /\ UNCHANGED <<cfg_llm_api_key, env_at_start, _handles, _host_client, startPc, started, servers,
                   clientUrl, task, should_exit, force_exit, waitOn, stopLog, reversedLeft,
                   testPc, test_servers>>
    /\ UNCHANGED <<runVars, cliVars, cancel_queue, wkVars, ovVars>>

\* stop after its loop: the environment is restored
StopEnds ==
    /\ stopPc = "stopping" /\ waitOn = NoHandle
    /\ _handles = <<>>
    /\ env' = _restore_env(env, _env_overrides)
    /\ _env_overrides' = <<>>
    /\ _started' = FALSE
    /\ stopPc' = "idle"
    /\ expResult' = "stopped"
    /\ UNCHANGED <<cfg_llm_api_key, env_at_start, _handles, _host_client, startPc, started, servers,
                   clientUrl, task, should_exit, force_exit, waitOn, stopLog, reversedLeft,
                   testPc, test_servers>>
    /\ UNCHANGED <<runVars, cliVars, cancel_queue, wkVars, ovVars>>

\* how one call of stop_uvicorn ended: returned, or raised exc
LogEntry(n, outcome, exc) == [name |-> n, outcome |-> outcome, exc |-> exc]

\* the end of stop_uvicorn after a timeout: stop_uvicorn of servers.py
\* raises a TimeoutError of its own, stop_uvicorn of test.py returns
TimeoutEnd(n) ==
    IF n \in TestNames THEN LogEntry(n, "returned", "")
    ELSE LogEntry(n, "raised", "TimeoutError")

\* stop_uvicorn: the task finishes within the timeout; stop_uvicorn returns
WaitFinishes ==
    /\ waitOn # NoHandle /\ task[waitOn] = "running"
    /\ task' = [task EXCEPT ![waitOn] = "finished"]
    /\ servers' = [servers EXCEPT ![waitOn] = "stopped"]
    /\ stopLog' = Append(stopLog, LogEntry(waitOn, "returned", ""))
    /\ waitOn' = NoHandle
    /\ UNCHANGED <<cfg_llm_api_key, env_at_start, env, _env_overrides, _handles, _host_client, _started,
                   startPc, started, clientUrl, expResult, should_exit, force_exit,
                   reversedLeft, stopPc, testPc, test_servers>>
    /\ UNCHANGED <<runVars, cliVars, cancel_queue, wkVars, ovVars>>

WaitTimesOutTaskKept ==
    /\ waitOn # NoHandle /\ task[waitOn] = "running"
    /\ force_exit' = [force_exit EXCEPT ![waitOn] = TRUE]
    /\ stopLog' = Append(stopLog, TimeoutEnd(waitOn))
    /\ waitOn' = NoHandle
    /\ UNCHANGED <<cfg_llm_api_key, env_at_start, env, _env_overrides, _handles, _host_client, _started,
                   startPc, started, servers, clientUrl, expResult, task, should_exit,
                   reversedLeft, stopPc, testPc, test_servers>>
    /\ UNCHANGED <<runVars, cliVars, cancel_queue, wkVars, ovVars>>

\* stop_uvicorn: the timeout expires; wait_for cancels the task and raises
\* TimeoutError once the task is done, force_exit is set
WaitTimesOut ==
    /\ waitOn # NoHandle /\ task[waitOn] = "running"
    /\ task' = [task EXCEPT ![waitOn] = "cancelled"]
    /\ servers' = [servers EXCEPT ![waitOn] = "stopped"]
    /\ force_exit' = [force_exit EXCEPT ![waitOn] = TRUE]
    /\ stopLog' = Append(stopLog, TimeoutEnd(waitOn))
    /\ waitOn' = NoHandle
    /\ UNCHANGED <<cfg_llm_api_key, env_at_start, env, _env_overrides, _handles, _host_client, _started,
                   startPc, started, clientUrl, expResult, should_exit, reversedLeft, stopPc,
                   testPc, test_servers>>
    /\ UNCHANGED <<runVars, cliVars, cancel_queue, wkVars, ovVars>>

\* stop_uvicorn: the task ends with an exception within the timeout;
\* force_exit is set and the exception raised again
WaitRaises ==
    /\ waitOn # NoHandle /\ task[waitOn] = "running"
    /\ task' = [task EXCEPT ![waitOn] = "raised"]
    /\ servers' = [servers EXCEPT ![waitOn] = "stopped"]
    /\ force_exit' = [force_exit EXCEPT ![waitOn] = TRUE]
    /\ stopLog' = Append(stopLog, LogEntry(waitOn, "raised", "task error"))
    /\ waitOn' = NoHandle
    /\ UNCHANGED <<cfg_llm_api_key, env_at_start, env, _env_overrides, _handles, _host_client, _started,
                   startPc, started, clientUrl, expResult, should_exit, reversedLeft, stopPc,
                   testPc, test_servers>>
    /\ UNCHANGED <<runVars, cliVars, cancel_queue, wkVars, ovVars>>

(***************************************************************************)
(* run_integration of test.py: three servers, two remote calls, and the    *)
(* servers stopped in its finally clause with test.py's own stop_uvicorn.  *)
(* It is a program of its own: once it has begun, the Experiment of the    *)
(* process is not used.                                                    *)
(***************************************************************************)

\* run_integration up to the first call of start_uvicorn: the credential
\* is required, the addresses of the servers are put into the environment
IntegrationBegin ==
    /\ testPc = "idle" /\ startPc = "idle" /\ stopPc = "idle" /\ ~_started
    /\ expResult = "none"
    /\ env["LLM_API_KEY"] # None
    /\ env' = [env EXCEPT !["MCP_SERVER_URL"] = "http://127.0.0.1:18200/mcp",
                          !["ADDITION_AGENT_URL"] = "http://127.0.0.1:18201",
                          !["SUBTRACTION_AGENT_URL"] = "http://127.0.0.1:18202"]
    /\ test_servers' = <<>>
    /\ testPc' = "launch"
    /\ UNCHANGED <<cfg_llm_api_key, env_at_start, _env_overrides, _handles, _host_client, _started, startPc,
                   started, servers, clientUrl, expResult, task, should_exit, force_exit,
                   waitOn, stopLog, reversedLeft, stopPc>>
    /\ UNCHANGED <<runVars, cliVars, cancel_queue, wkVars, ovVars>>

\* start_uvicorn of test.py up to its first sleep
TestLaunch ==
    /\ testPc = "launch"
    /\ task' = [task EXCEPT ![TestOrder[Len(test_servers) + 1]] = "running"]
    /\ servers' = [servers EXCEPT ![TestOrder[Len(test_servers) + 1]] = "starting"]
    /\ testPc' = "starting"
    /\ UNCHANGED <<cfg_llm_api_key, env_at_start, env, _env_overrides, _handles, _host_client, _started,
                   startPc, started, clientUrl, expResult, should_exit, force_exit, waitOn,
                   stopLog, reversedLeft, stopPc, test_servers>>
    /\ UNCHANGED <<runVars, cliVars, cancel_queue, wkVars, ovVars>>

\* start_uvicorn of test.py raises before it has a task: the finally
\* clause runs
TestLaunchRaises ==
    /\ testPc = "launch"
    /\ testPc' = "finally_raising"
    /\ reversedLeft' = Len(test_servers)
    /\ UNCHANGED <<cfg_llm_api_key, env_at_start, env, _env_overrides, _handles, _host_client, _started,
                   startPc, started, servers, clientUrl, expResult, task, should_exit,
                   force_exit, waitOn, stopLog, stopPc, test_servers>>
    /\ UNCHANGED <<runVars, cliVars, cancel_queue, wkVars, ovVars>>

\* the polling loop of test.py's start_uvicorn sees server.started
TestServerReady ==
    /\ testPc = "starting"
    /\ servers[TestOrder[Len(test_servers) + 1]] = "serving"
    /\ test_servers' = Append(test_servers, TestOrder[Len(test_servers) + 1])
    /\ testPc' = IF Len(test_servers) + 1 < Len(TestOrder) THEN "launch" ELSE "calling"
    /\ UNCHANGED <<cfg_llm_api_key, env_at_start, env, _env_overrides, _handles, _host_client, _started,
                   startPc, started, servers, clientUrl, expResult, task, should_exit,
                   force_exit, waitOn, stopLog, reversedLeft, stopPc>>
    /\ UNCHANGED <<runVars, cliVars, cancel_queue, wkVars, ovVars>>

\* call_arithmetic_agents and the assertion on its result end, with or
\* without an exception: the finally clause runs
TestCallEnds ==
    /\ testPc = "calling"
    /\ \E raised \in BOOLEAN :
        testPc' = IF raised THEN "finally_raising" ELSE "finally"
    /\ reversedLeft' = Len(test_servers)
    /\ UNCHANGED <<cfg_llm_api_key, env_at_start, env, _env_overrides, _handles, _host_client, _started,
                   startPc, started, servers, clientUrl, expResult, task, should_exit,
                   force_exit, waitOn, stopLog, stopPc, test_servers>>
    /\ UNCHANGED <<runVars, cliVars, cancel_queue, wkVars, ovVars>>

\* no call of stop_uvicorn has raised so far
NoStopRaised ==
    IF stopLog = <<>> THEN TRUE ELSE stopLog[Len(stopLog)].outcome = "returned"

\* the finally clause: stop_uvicorn for the next handle of reversed(servers)
TestStopNext ==
    /\ testPc \in {"finally", "finally_raising"} /\ waitOn = NoHandle
    /\ NoStopRaised
    /\ reversedLeft > 0
    /\ BeginStop(test_servers[reversedLeft])
    /\ reversedLeft' = reversedLeft - 1
    /\ UNCHANGED <<cfg_llm_api_key, env_at_start, env, _env_overrides, _handles, _host_client, _started,
                   startPc, started, servers, clientUrl, expResult, task, force_exit, stopLog,
                   stopPc, testPc, test_servers>>
    /\ UNCHANGED <<runVars, cliVars, cancel_queue, wkVars, ovVars>>

\* the finally clause: a call of stop_uvicorn raised; the exception leaves
\* the loop and run_integration
TestStopPropagates ==
    /\ testPc \in {"finally", "finally_raising"} /\ waitOn = NoHandle
    /\ ~NoStopRaised
    /\ testPc' = "failed"
    /\ UNCHANGED <<cfg_llm_api_key, env_at_start, env, _env_overrides, _handles, _host_client, _started,
                   startPc, started, servers, clientUrl, expResult, task, should_exit,
                   force_exit, waitOn, stopLog, reversedLeft, stopPc, test_servers>>
    /\ UNCHANGED <<runVars, cliVars, cancel_queue, wkVars, ovVars>>

\* the finally clause is through: run_integration returns, or raises what
\* its try block raised
TestEnds ==
    /\ testPc \in {"finally", "finally_raising"} /\ waitOn = NoHandle
    /\ NoStopRaised
    /\ reversedLeft = 0
    /\ testPc' = IF testPc = "finally" THEN "done" ELSE "failed"
    /\ UNCHANGED <<cfg_llm_api_key, env_at_start, env, _env_overrides, _handles, _host_client, _started,
                   startPc, started, servers, clientUrl, expResult, task, should_exit,
                   force_exit, waitOn, stopLog, reversedLeft, stopPc, test_servers>>
    /\ UNCHANGED <<runVars, cliVars, cancel_queue, wkVars, ovVars>>

(***************************************************************************)
(* ArithmeticHostAgentExecutor.execute, one run at a time, reached through *)
(* Experiment.evaluate on a started experiment.                            *)
(***************************************************************************)
\* a request arrives with a blank user input: the prompt request only
ExecuteBlank ==
    /\ _started /\ _host_client /\ startPc = "idle" /\ pc = "idle"
    /\ \E raw \in Expressions, ids \in BOOLEAN :
        /\ strip(raw) = <<>>
        /\ user_input' = raw
        /\ hasIds' = ids
        /\ expression' = strip(raw)
        /\ events' = <<TextMessage("prompt",
                                   <<"Please provide an arithmetic expression to evaluate.">>)>>
        /\ pc' = "returned"
    /\ UNCHANGED <<plannerReply, plannerCalls, plan, idx, current, calls>>
    /\ expResult' = "none"
    /\ UNCHANGED <<expRest, cliVars, cancel_queue, wkVars, ovVars>>

\* a request arrives: the planning status, then the planner is invoked
ExecuteBegin ==
    /\ _started /\ _host_client /\ startPc = "idle" /\ pc = "idle"
    /\ \E raw \in Expressions, ids \in BOOLEAN :
        /\ strip(raw) # <<>>
        /\ user_input' = raw
        /\ hasIds' = ids
        /\ expression' = strip(raw)
        /\ events' = <<send_status(ids, "planning", "working", FALSE, 0,
                                   <<"Planning expression: ">> \o strip(raw))>>
        /\ plannerCalls' = plannerCalls + 1
        /\ pc' = "planning"
    /\ UNCHANGED <<plannerReply, plan, idx, current, calls>>
    /\ expResult' = "none"
    /\ UNCHANGED <<expRest, cliVars, cancel_queue, wkVars, ovVars>>

\* the planner answered and no plan came of it: the failure is reported as
\* a plain message and the run returns
DecomposeFails ==
    /\ pc = "planning"
    /\ \E reply \in PlannerReplies(expression) :
      \E d \in {_decompose_with_llm(expression, reply)} :
        /\ ~d.ok
        /\ plannerReply' = reply
        /\ events' = Append(events,
                            TextMessage("decompose_error",
                                        <<"Unable to decompose expression: ">> \o d.err))
        /\ pc' = "returned"
    /\ UNCHANGED <<user_input, expression, hasIds, plannerCalls, plan, idx, current, calls>>
    /\ UNCHANGED <<expVars, cliVars, cancel_queue, wkVars, ovVars>>

\* the planner answered and a plan came of it: the plan is announced
DecomposeOk ==
    /\ pc = "planning"
    /\ \E reply \in PlannerReplies(expression) :
      \E d \in {_decompose_with_llm(expression, reply)} :
        /\ d.ok
        /\ plannerReply' = reply
        /\ plan' = d.plan
        /\ events' = events \o PlanAnnouncement(hasIds, d.plan)
        /\ current' = d.plan.initial_value
        /\ idx' = 1
        /\ pc' = "executing"
    /\ UNCHANGED <<user_input, expression, hasIds, plannerCalls, calls>>
    /\ UNCHANGED <<expVars, cliVars, cancel_queue, wkVars, ovVars>>

\* the loop reaches step idx: the matching client sends its prompt (an
\* operation outside the four ends the run with a failed status)
DispatchStep ==
    /\ pc = "executing" /\ idx <= Len(plan.steps)
    /\ LET step == plan.steps[idx] IN
       IF step.operation \in Operations
       THEN /\ calls' = Append(calls, StepCall(plan, idx, current, clientUrl, Len(events)))
            /\ pc' = "awaiting"
            /\ UNCHANGED events
       ELSE /\ events' = Append(events,
                                send_status(hasIds, "unsupported", "failed", TRUE, idx,
                                            <<"Unsupported operation '", step.operation, "'">>))
            /\ pc' = "failed"
            /\ UNCHANGED calls
    /\ UNCHANGED <<user_input, expression, hasIds, plannerReply, plannerCalls, plan, idx, current>>
    /\ UNCHANGED <<expVars, cliVars, cancel_queue, wkVars, ovVars>>

\* the call in flight returns a Decimal: the step status, then the running
\* value advances
CallReturns ==
    /\ pc = "awaiting"
    /\ LET c == calls[Len(calls)] IN
       /\ WorkerAt(c.url) # ""
       /\ \E style \in WorkerStyles :
           \E r \in {CallOutcome(c, style)} :
               /\ r.ok
               /\ calls' = [calls EXCEPT ![Len(calls)] =
                               [c EXCEPT !.status = "returned", !.style = style,
                                         !.result = r.val]]
               /\ events' = Append(events,
                                   send_status(hasIds, "step", "working", FALSE, idx,
                                               StepText(idx, current, c.op, c.rhs, r.val)))
               /\ current' = r.val
    /\ idx' = idx + 1
    /\ pc' = "executing"
    /\ UNCHANGED <<user_input, expression, hasIds, plannerReply, plannerCalls, plan>>
    /\ UNCHANGED <<expVars, cliVars, cancel_queue, wkVars, ovVars>>

CallRaisesSkipped ==
    /\ pc = "awaiting"
    /\ LET c == calls[Len(calls)] IN
       \E style \in WorkerStyles \cup {"unreachable", "rpc_error"} :
           /\ style = "unreachable" <=> WorkerAt(c.url) = ""
           /\ style \in WorkerStyles => ~CallOutcome(c, style).ok
           /\ calls' = [calls EXCEPT ![Len(calls)] =
                           [c EXCEPT !.status = "raised", !.style = style]]
    /\ idx' = idx + 1
    /\ pc' = "executing"
    /\ UNCHANGED <<user_input, expression, hasIds, plannerReply, plannerCalls, plan, current,
                   events>>
    /\ UNCHANGED <<expVars, cliVars, cancel_queue, wkVars, ovVars>>

\* the call in flight raises: nobody serves at the address, the transport
\* or the protocol fails, or the reply holds no number; execute does not
\* catch it
CallRaises ==
    /\ pc = "awaiting"
    /\ LET c == calls[Len(calls)] IN
       \E style \in WorkerStyles \cup {"unreachable", "rpc_error"} :
           /\ style = "unreachable" <=> WorkerAt(c.url) = ""
           /\ style \in WorkerStyles => ~CallOutcome(c, style).ok
           /\ calls' = [calls EXCEPT ![Len(calls)] =
                           [c EXCEPT !.status = "raised", !.style = style]]
    /\ pc' = "raised"
    /\ UNCHANGED <<user_input, expression, hasIds, plannerReply, plannerCalls, plan, idx, current, events>>
    /\ UNCHANGED <<expVars, cliVars, cancel_queue, wkVars, ovVars>>

CompleteBeforeLastStep ==
    /\ pc = "executing" /\ idx >= Len(plan.steps)
    /\ events' = Append(events,
                        send_status(hasIds, "result", "completed", TRUE, 0,
                                    format_decimal(current)))
    /\ pc' = "completed"
    /\ UNCHANGED <<user_input, expression, hasIds, plannerReply, plannerCalls, plan, idx, current, calls>>
    /\ UNCHANGED <<expVars, cliVars, cancel_queue, wkVars, ovVars>>

\* the loop is over: the final status carries the running value
Complete ==
    /\ pc = "executing" /\ idx > Len(plan.steps)
    /\ events' = Append(events,
                        send_status(hasIds, "result", "completed", TRUE, 0,
                                    format_decimal(current)))
    /\ pc' = "completed"
    /\ UNCHANGED <<user_input, expression, hasIds, plannerReply, plannerCalls, plan, idx, current, calls>>
    /\ UNCHANGED <<expVars, cliVars, cancel_queue, wkVars, ovVars>>

EvaluateUnguarded ==
    /\ pc = "idle"
    /\ ~(_started /\ _host_client)
    /\ pc' = "planning"
    /\ UNCHANGED <<user_input, expression, hasIds, plannerReply, plannerCalls, plan, idx, current,
                   events, calls>>
    /\ UNCHANGED <<expVars, cliVars, cancel_queue, wkVars, ovVars>>

\* Experiment.evaluate on an Experiment that is not started or has no host
\* client: it raises RuntimeError and nothing is sent to the host
EvaluateNotStarted ==
    /\ pc = "idle"
    /\ ~(_started /\ _host_client)
    /\ pc' = "state_error"
    /\ UNCHANGED <<user_input, expression, hasIds, plannerReply, plannerCalls, plan, idx, current,
                   events, calls>>
    /\ UNCHANGED <<expVars, cliVars, cancel_queue, wkVars, ovVars>>

\* the request is over and its outcome handed to the caller of evaluate
EvaluateReturns ==
    /\ pc \in Terminal \cup {"state_error"}
    /\ user_input' = <<>>
    /\ expression' = <<>>
    /\ hasIds' = FALSE
    /\ pc' = "idle"
    /\ plannerReply' = NoReply
    /\ plannerCalls' = 0
    /\ plan' = NoPlan
    /\ idx' = 0
    /\ current' = NoDecimal
    /\ events' = <<>>
    /\ calls' = <<>>
    /\ UNCHANGED <<expVars, cliVars, cancel_queue, wkVars, ovVars>>

(***************************************************************************)
(* One _A2AArithmeticClient instance and the coroutines calling            *)
(* send_prompt on it.  Every await of send_prompt is a point where another *)
(* caller may run.                                                         *)
(***************************************************************************)
\* send_prompt enters _ensure_client: with a client it returns at once and
\* the message is sent, without one it awaits the agent card
SendPromptBegin ==
    \E c \in Callers :
        /\ callerPc[c] = "idle"
        /\ callerPc' = [callerPc EXCEPT ![c] = IF _client THEN "sending" ELSE "ensuring"]
        /\ UNCHANGED <<_client, clientBuilds, lastResponse, lastOutcome>>
        /\ UNCHANGED <<expVars, runVars, cancel_queue, wkVars, ovVars>>

\* get_agent_card returns: the A2AClient is built and stored, then the
\* message is sent
CardArrives ==
    \E c \in Callers :
        /\ callerPc[c] = "ensuring"
        /\ _client' = TRUE
        /\ clientBuilds' = clientBuilds + 1
        /\ callerPc' = [callerPc EXCEPT ![c] = "sending"]
        /\ UNCHANGED <<lastResponse, lastOutcome>>
        /\ UNCHANGED <<expVars, runVars, cancel_queue, wkVars, ovVars>>

\* get_agent_card raises: send_prompt raises what it raised
CardFails ==
    \E c \in Callers :
        /\ callerPc[c] = "ensuring"
        /\ callerPc' = [callerPc EXCEPT ![c] = "raised"]
        /\ lastResponse' = NoResponse
        /\ lastOutcome' = Outcome(FALSE, NoDecimal, <<"agent card">>)
        /\ UNCHANGED <<_client, clientBuilds>>
        /\ UNCHANGED <<expVars, runVars, cancel_queue, wkVars, ovVars>>

\* send_message returns a response, any of the input set: an error envelope
\* raises, a success envelope is read by _extract_decimal
ResponseArrives ==
    \E c \in Callers, response \in Responses :
        \E r \in {ResponseOutcome(response)} :
            /\ callerPc[c] = "sending"
            /\ callerPc' = [callerPc EXCEPT ![c] = IF r.ok THEN "returned" ELSE "raised"]
            /\ lastResponse' = response
            /\ lastOutcome' = r
            /\ UNCHANGED <<_client, clientBuilds>>
            /\ UNCHANGED <<expVars, runVars, cancel_queue, wkVars, ovVars>>

\* send_message returns a response, one of the three kinds of response
SampleResponseArrives ==
    \E c \in Callers, response \in SampleResponses :
        \E r \in {ResponseOutcome(response)} :
            /\ callerPc[c] = "sending"
            /\ callerPc' = [callerPc EXCEPT ![c] = IF r.ok THEN "returned" ELSE "raised"]
            /\ lastResponse' = response
            /\ lastOutcome' = r
            /\ UNCHANGED <<_client, clientBuilds>>
            /\ UNCHANGED <<expVars, runVars, cancel_queue, wkVars, ovVars>>

\* send_message raises (transport failure): send_prompt raises it
SendFails ==
    \E c \in Callers :
        /\ callerPc[c] = "sending"
        /\ callerPc' = [callerPc EXCEPT ![c] = "raised"]
        /\ lastResponse' = NoResponse
        /\ lastOutcome' = Outcome(FALSE, NoDecimal, <<"transport">>)
        /\ UNCHANGED <<_client, clientBuilds>>
        /\ UNCHANGED <<expVars, runVars, cancel_queue, wkVars, ovVars>>

\* the caller has its result or exception and may call again
CallEnds ==
    \E c \in Callers :
        /\ callerPc[c] \in {"returned", "raised"}
        /\ callerPc' = [callerPc EXCEPT ![c] = "idle"]
        /\ UNCHANGED <<_client, clientBuilds, lastResponse, lastOutcome>>
        /\ UNCHANGED <<expVars, runVars, cancel_queue, wkVars, ovVars>>

Next ==
    \/ StartConfigError
    \/ StartBegin
    \/ StartBuildRaises
    \/ StartNoop
    \/ LaunchServer
    \/ LaunchRaises
    \/ ServeStarts
    \/ ServeTaskFails
    \/ ServerReady
    \/ RollbackNext
    \/ RollbackEnds
    \/ StopNoop
    \/ StopCloseRaises
    \/ StopBegin
    \/ StopNext
    \/ StopEnds
    \/ WaitFinishes
    \/ WaitTimesOut
    \/ WaitRaises
    \/ IntegrationBegin
    \/ TestLaunch
    \/ TestLaunchRaises
    \/ TestServerReady
    \/ TestCallEnds
    \/ TestStopNext
    \/ TestStopPropagates
    \/ TestEnds
    \/ ExecuteBlank
    \/ ExecuteBegin
    \/ DecomposeFails
    \/ DecomposeOk
    \/ DispatchStep
    \/ CallReturns
    \/ CallRaises
    \/ Complete
    \/ EvaluateNotStarted
    \/ EvaluateReturns

Spec == Init /\ [][Next]_vars

\* the experiment is not started and no run of the host executor is under
\* way
ExperimentUnused ==
    /\ cfg_llm_api_key = "sk-cfg"
    /\ env = [k \in EnvKeys |-> None]
    /\ env_at_start = env
    /\ _env_overrides = <<>>
    /\ _handles = <<>>
    /\ _host_client = FALSE
    /\ _started = FALSE
    /\ startPc = "idle"
    /\ started = <<>>
    /\ HandlesIdle
    /\ clientUrl = NoClients
    /\ expResult = "none"
    /\ cancel_queue = <<>>
    /\ WorkerIdle
    /\ OverlapIdle
    /\ RunIdle

\* one client instance and the coroutines that share it
InitClient == ExperimentUnused /\ ClientIdle

NextClient ==
    \/ SendPromptBegin
    \/ CardArrives
    \/ CardFails
    \/ SampleResponseArrives
    \/ SendFails
    \/ CallEnds

SpecClient == InitClient /\ [][NextClient]_vars

\* one client instance used by one coroutine, which receives every response
\* of the input set
InitReply ==
    /\ ExperimentUnused
    /\ _client = FALSE
    /\ clientBuilds = 0
    /\ callerPc = [c \in Callers |-> IF c = 1 THEN "idle" ELSE "absent"]
    /\ lastResponse = NoResponse
    /\ lastOutcome = Outcome(FALSE, NoDecimal, <<>>)

NextReply ==
    \/ SendPromptBegin
    \/ CardArrives
    \/ CardFails
    \/ ResponseArrives
    \/ SendFails
    \/ CallEnds

SpecReply == InitReply /\ [][NextReply]_vars

(***************************************************************************)
(* The host executor on its own: the Experiment is started (the state     *)
(* start leaves when every server came up) and expressions are evaluated;  *)
(* with cancellation requests, cancel is called at any moment.             *)
(***************************************************************************)
\* the text ArithmeticHostAgentExecutor.cancel enqueues
CancelAck == "Cancellation is not supported."

CancelEndsRun ==
    /\ Len(cancel_queue) < MaxCancels
    /\ cancel_queue' = Append(cancel_queue, CancelAck)
    /\ pc' = IF pc \in {"idle", "state_error"} \cup Terminal THEN pc ELSE "failed"
    /\ UNCHANGED <<user_input, expression, hasIds, plannerReply, plannerCalls, plan, idx, current,
                   events, calls>>
    /\ UNCHANGED <<expVars, cliVars, wkVars, ovVars>>

\* ArithmeticHostAgentExecutor.cancel: one message on the queue of the
\* request
Cancel ==
    /\ Len(cancel_queue) < MaxCancels
    /\ cancel_queue' = Append(cancel_queue, CancelAck)
    /\ UNCHANGED <<expVars, runVars, cliVars, wkVars, ovVars>>

\* the Experiment after a start that brought the four servers up
ExperimentStarted ==
    /\ cfg_llm_api_key = None
    /\ env_at_start \in {e \in InitialEnvs : e["LLM_API_KEY"] # None}
    /\ env = ApplyOverrides([env |-> env_at_start, overrides |-> <<>>], StartOverrides).env
    /\ _env_overrides =
           ApplyOverrides([env |-> env_at_start, overrides |-> <<>>], StartOverrides).overrides
    /\ _handles = ServerOrder
    /\ _host_client = TRUE
    /\ _started = TRUE
    /\ startPc = "idle"
    /\ started = ServerOrder
    /\ servers = [n \in Handles |-> IF n \in ServerNames THEN "serving" ELSE "none"]
    /\ task = [n \in Handles |-> IF n \in ServerNames THEN "running" ELSE "none"]
    /\ should_exit = [n \in Handles |-> FALSE]
    /\ force_exit = [n \in Handles |-> FALSE]
    /\ waitOn = NoHandle
    /\ stopLog = <<>>
    /\ reversedLeft = 0
    /\ stopPc = "idle"
    /\ testPc = "idle"
    /\ test_servers = <<>>
    /\ clientUrl = HostClientUrls(env)
    /\ expResult = "started"

\* the host executor behind a started Experiment, no run begun
InitRun ==
    /\ ExperimentStarted
    /\ RunIdle
    /\ ClientIdle
    /\ cancel_queue = <<>>
    /\ WorkerIdle
    /\ OverlapIdle

\* the runs of execute, one after the other
NextRun ==
    \/ ExecuteBlank
    \/ ExecuteBegin
    \/ DecomposeFails
    \/ DecomposeOk
    \/ DispatchStep
    \/ CallReturns
    \/ CallRaises
    \/ Complete
    \/ EvaluateReturns

SpecRun == InitRun /\ [][NextRun]_vars

NextCancel ==
    \/ ExecuteBlank
    \/ ExecuteBegin
    \/ DecomposeFails
    \/ DecomposeOk
    \/ DispatchStep
    \/ CallReturns
    \/ CallRaises
    \/ Complete
    \/ EvaluateReturns
    \/ Cancel

SpecCancel == InitRun /\ [][NextCancel]_vars

(***************************************************************************)
(* Properties.                                                             *)
(***************************************************************************)
RunActive == pc \notin {"idle", "state_error"}

HasEvent(kind) == \E i \in 1..Len(events) : events[i].kind = kind

LastEvent == events[Len(events)]

\* the planner's reply is JSON that passes the plan schema
ReplyIsValidPlan(reply) == reply.kind = "json" /\ model_validate(reply.data)

TenMinusThreePlusTwo == <<"1", "0", " ", "-", " ", "3", " ", "+", " ", "2">>

\* C1: within one run the remote calls are issued in plan order and one at
\* a time: call k is the call of step k, it is issued only after call k-1
\* has returned, the left operand of call 1 is the plan's initial value and
\* the left operand of call k+1 is the result returned by call k.
C1_CallsInPlanOrder ==
    \A k \in 1..Len(calls) :
        /\ calls[k].step = k
        /\ k <= Len(plan.steps)
        /\ calls[k].op = plan.steps[k].operation
        /\ calls[k].rhs = plan.steps[k].operand
        /\ k = 1 => calls[k].lhs = plan.initial_value
        /\ k > 1 => /\ calls[k - 1].status = "returned"
                    /\ calls[k].lhs = calls[k - 1].result
        /\ k < Len(calls) => calls[k].status = "returned"

C1_Witness ==
    /\ Len(calls) = 2
    /\ calls[2].status = "returned"
    /\ calls[1].result # plan.initial_value
    /\ calls[2].lhs = calls[1].result

\* C2: when the remote call of step k raises, the run is over: no call of a
\* later step is issued, step k is not called again, and no step-result
\* event exists for step k or a later step.
C2_NoStepAfterFailedCall ==
    \A k \in 1..Len(calls) :
        calls[k].status = "raised" =>
            /\ k = Len(calls)
            /\ pc = "raised"
            /\ \A j \in 1..Len(calls) : j # k => calls[j].step < calls[k].step
            /\ \A i \in 1..Len(events) :
                   events[i].kind = "step" => events[i].step < calls[k].step

C2_Witness ==
    /\ pc = "raised"
    /\ Len(calls) = 2
    /\ calls[2].status = "raised"
    /\ Len(plan.steps) = 3

\* C3: every run that gets past the blank-expression check ends with a
\* status event marked final (completed or failed) as its last event.
C3_RunEndsWithFinalStatus ==
    (pc \in Terminal /\ expression # <<>>) =>
        /\ events # <<>>
        /\ LastEvent.type = "status"
        /\ LastEvent.final
        /\ LastEvent.state \in {"completed", "failed"}

IsBlank(t) == \A i \in 1..Len(t) : isspace(t[i])

\* C4: for an empty or whitespace-only user input the run emits exactly one
\* event, the prompt request, never invokes the planner and issues no
\* remote call.
C4_BlankInputOnlyPrompts ==
    (RunActive /\ IsBlank(user_input)) =>
        /\ pc = "returned"
        /\ Len(events) = 1
        /\ events[1].kind = "prompt"
        /\ plannerCalls = 0
        /\ plannerReply = NoReply
        /\ calls = <<>>

C4_Witness ==
    /\ pc = "returned"
    /\ user_input = <<" ", " ">>
    /\ Len(events) = 1
    /\ events[1].kind = "prompt"

\* C5: in a run that issued a remote call, the plan announcement was
\* emitted before the first call and after the 'Planning expression' event.
C5_PlanAnnouncedBeforeFirstCall ==
    calls # <<>> =>
        \E i, j \in 1..calls[1].issuedAt :
            /\ i < j
            /\ events[i].kind = "planning"
            /\ events[j].kind = "plan"

C5_Witness ==
    /\ calls # <<>>
    /\ calls[1].issuedAt = 2
    /\ events[1].kind = "planning"
    /\ events[2].kind = "plan"

\* the structured reply is invalid and the fallback parser gives no plan
\* either
DecompositionFailed ==
    /\ RunActive
    /\ plannerReply.kind \in {"text", "json"}
    /\ ~ReplyIsValidPlan(plannerReply)
    /\ _fallback_parse(expression).kind # "plan"

\* C6: when decomposition fails the run reports the failure and stops: its
\* last event is the 'Unable to decompose' message, no plan announcement is
\* emitted and no remote call is issued.
C6_DecompositionFailureStopsRun ==
    DecompositionFailed =>
        /\ pc = "returned"
        /\ LastEvent.kind = "decompose_error"
        /\ ~HasEvent("plan")
        /\ ~HasEvent("step")
        /\ plan = NoPlan
        /\ calls = <<>>

C6_Witness ==
    /\ DecompositionFailed
    /\ plannerReply.kind = "json"
    /\ expression = <<"3", "/">>
    /\ LastEvent.kind = "decompose_error"

Malformed ==
    { <<"+">>, <<"3", " ", "+">>, <<"3", " ", "*", "*", " ", "2">> }

\* C7 as stated: a malformed expression never produces a plan and always
\* ends in the reported decomposition error, whatever the planner returns.
C7_MalformedNeverPlanned ==
    (expression \in Malformed /\ plannerReply # NoReply) =>
        /\ plan = NoPlan
        /\ pc = "returned"
        /\ LastEvent.kind = "decompose_error"

\* C7 (amended): the malformed expressions "+", "3 +" and "3 ** 2" end in
\* the reported decomposition error, with no plan and no remote call,
\* whenever the planner's reply is not a schema-valid plan (it raised, it is
\* no JSON, or it fails validation); the empty string never reaches the
\* planner and produces no plan.
C7_MalformedFailsWithoutValidReply ==
    /\ (expression \in Malformed /\ plannerReply # NoReply
          /\ ~ReplyIsValidPlan(plannerReply)) =>
            /\ plan = NoPlan
            /\ pc = "returned"
            /\ LastEvent.kind = "decompose_error"
            /\ calls = <<>>
    /\ (RunActive /\ user_input = <<>>) =>
            /\ plan = NoPlan
            /\ plannerCalls = 0
            /\ calls = <<>>

C7_Witness ==
    /\ expression = <<"3", " ", "*", "*", " ", "2">>
    /\ plannerReply.kind = "text"
    /\ pc = "returned"
    /\ LastEvent.kind = "decompose_error"

\* the operation a source operator stands for
OperatorTable == {<<"+", "add">>, <<"-", "sub">>, <<"*", "mul">>, <<"/", "div">>}

\* a op b evaluated directly on the operator symbol
EvalSymbol(sym, a, b) ==
    CASE sym = "+" -> ValRes(TRUE, DecAdd(a, b))
      [] sym = "-" -> ValRes(TRUE, DecSub(a, b))
      [] sym = "*" -> ValRes(TRUE, DecMul(a, b))
      [] sym = "/" -> IF IsZero(b) THEN ValRes(FALSE, NoDecimal)
                      ELSE ValRes(TRUE, DecDiv(a, b))

RECURSIVE EvalTokensFrom(_, _, _)
EvalTokensFrom(tokens, i, acc) ==
    IF ~acc.ok \/ i > Len(tokens) THEN acc
    ELSE EvalTokensFrom(tokens, i + 2, EvalSymbol(tokens[i].op, acc.val, tokens[i + 1].num))

\* the token sequence evaluated left to right without precedence
EvalTokens(tokens) == EvalTokensFrom(tokens, 2, ValRes(TRUE, tokens[1].num))

RECURSIVE RunStepsFrom(_, _, _)
RunStepsFrom(steps, i, acc) ==
    IF ~acc.ok \/ i > Len(steps) THEN acc
    ELSE RunStepsFrom(steps, i + 1, ToolValue(steps[i].operation, acc.val, steps[i].operand))

\* the plan executed left to right with the arithmetic tools
RunPlan(p) == RunStepsFrom(p.steps, 1, ValRes(TRUE, p.initial_value))

PlannedByFallback ==
    /\ pc \in {"executing", "awaiting", "completed", "failed", "raised"}
    /\ ~ReplyIsValidPlan(plannerReply)

\* C8: for an expression the tokenizer accepts, the fallback plan has the
\* first (signed) number as initial value and one step per operator/number
\* pair in source order, + - * / mapped to add sub mul div, and running it
\* left to right gives what evaluating the tokens left to right gives.
C8_FallbackPlanMatchesTokens ==
    PlannedByFallback =>
        LET t == _tokenize_expression(expression).tokens IN
        /\ _tokenize_expression(expression).ok
        /\ plan.initial_value = t[1].num
        /\ 2 * Len(plan.steps) + 1 = Len(t)
        /\ \A k \in 1..Len(plan.steps) :
               /\ <<t[2 * k].op, plan.steps[k].operation>> \in OperatorTable
               /\ plan.steps[k].operand = t[2 * k + 1].num
        /\ RunPlan(plan) = EvalTokens(t)

C8_Witness ==
    /\ PlannedByFallback
    /\ expression = TenMinusThreePlusTwo
    /\ plan = DecompositionResult(D(10), <<DecompositionStep("sub", D(3)),
                                           DecompositionStep("add", D(2))>>)
    /\ RunPlan(plan) = ValRes(TRUE, D(9))

\* an integer in [1, 100] written without sign
IsOperand(x) ==
    /\ x.sign = 0 /\ x.exp = 0
    /\ ~IsZero(x)
    /\ (Len(x.int) <= 2 \/ x.int = <<1, 0, 0>>)

\* a chain of two or more operands in [1, 100] joined by the four operators
IsChain(e) ==
    LET t == _tokenize_expression(e) IN
    /\ t.ok
    /\ Len(t.tokens) >= 3
    /\ \A i \in 1..Len(t.tokens) : t.tokens[i].isnum => IsOperand(t.tokens[i].num)
    /\ e[1] \notin SignSet

\* the planner and every worker that was reached did their part: the plan
\* is the one the expression reads as, and each reply was the tool's result
CollaboratorsFaithful ==
    /\ plannerReply.kind \in {"text", "json"}
    /\ pc # "returned"
    /\ plan = _fallback_parse(expression).plan
    /\ \A k \in 1..Len(calls) : calls[k].style \in {"none", "terse", "unreachable"}

\* C9: every chain of two or more operands in [1, 100] over + - * /,
\* evaluated through the cluster Experiment.start brought up, ends in the
\* completed state with the value of its left-to-right evaluation.
C9_ChainCompletesWithValue ==
    (pc \in Terminal /\ IsChain(expression) /\ CollaboratorsFaithful) =>
        /\ pc = "completed"
        /\ ValRes(TRUE, current) = EvalTokens(_tokenize_expression(expression).tokens)

\* C10: once started, the experiment has a worker serving every operator a
\* validated plan may contain at the address the host dispatches that
\* operator to.
C10_WorkerForEveryOperator ==
    _started => \A op \in Operations : WorkerAt(clientUrl[op]) = op

\* call k of the run is the call of a step that divides by exactly 0 and it
\* is over
DividedByZero(k) ==
    /\ calls[k].op = "div"
    /\ IsZero(calls[k].rhs)
    /\ calls[k].status # "inflight"

\* an event was enqueued after call k was issued
ReportedAfter(k) == Len(events) > calls[k].issuedAt

\* the part of C11 that is about the value: the call of a division by 0
\* gives no number, the running value stays the left operand and the run
\* is not completed
DivisionByZeroGivesNoValue ==
    \A k \in 1..Len(calls) :
        DividedByZero(k) =>
            /\ calls[k].status = "raised"
            /\ current = calls[k].lhs
            /\ pc # "completed"

\* C11: when a plan step divides by an operand of exactly 0 the run fails
\* at that step with a reported error: the division call returns no number,
\* the running value is not advanced, the run does not complete, and an
\* event reporting the failure follows the call.
C11_DivisionByZeroFailsReported ==
    \A k \in 1..Len(calls) :
        DividedByZero(k) =>
            /\ calls[k].status = "raised"
            /\ current = calls[k].lhs
            /\ pc # "completed"
            /\ ReportedAfter(k)


(***************************************************************************)
(* The reading of a worker's response by the client.                       *)
(***************************************************************************)
\* the text that the last ended call read its number from
SelectedText == _message_to_text(SelectMessage(lastResponse.result))

\* the starts of the pattern's matches at or after position p
MatchesFrom(t, p) == {q \in MatchStarts(t) : q >= p}

RECURSIVE LastMatchStart(_, _)
\* the start of the last of the successive matches found from p on
LastMatchStart(t, p) ==
    LET q == SetMin(MatchesFrom(t, p)) IN
    IF MatchesFrom(t, MatchEnd(t, q)) = {} THEN q
    ELSE LastMatchStart(t, MatchEnd(t, q))

\* the number of the last match of a text that has one
LastNumber(t) ==
    LET q == LastMatchStart(t, 1) IN DecimalOfMatch(SubSeq(t, q, MatchEnd(t, q) - 1))

\* the text holds at least two successive matches
SeveralMatches(t) ==
    /\ MatchStarts(t) # {}
    /\ MatchesFrom(t, MatchEnd(t, SetMin(MatchStarts(t)))) # {}

\* the last ended call received a bare message as its result
GotBareMessage ==
    /\ lastResponse.kind = "success"
    /\ ~lastResponse.result.isTask
    /\ lastResponse.result.message # NoMessage

\* C12: when the text of the message read holds several number-shaped
\* substrings, the client returns the last occurring one, not the first
C12_LastMatchReturned ==
    (GotBareMessage /\ SeveralMatches(SelectedText))
        => /\ lastOutcome.ok
           /\ lastOutcome.val = LastNumber(SelectedText)

\* the last ended call received a task as its result
GotTask ==
    /\ lastResponse.kind = "success"
    /\ lastResponse.result.isTask

\* the most recent agent-authored message of a history that has one
LastAgentMessage(history) == history[SetMax(AgentIndexes(history))]

\* C13: for a task with a status message the number is taken from the status
\* message, also when the history holds agent-authored messages; the
\* history (most recent agent-authored message first) is read only when
\* the task has no status message
C13_StatusMessagePreferred ==
    GotTask =>
        /\ lastResponse.result.status # NoMessage
               => lastOutcome = MessageOutcome(lastResponse.result.status)
        /\ (/\ lastResponse.result.status = NoMessage
            /\ AgentIndexes(lastResponse.result.history) # {})
               => lastOutcome = MessageOutcome(LastAgentMessage(lastResponse.result.history))

\* the part of C13 the code keeps: a task without agent-authored history is
\* read from its status message, and the history is read from its most
\* recent agent-authored message
HistoryReadMostRecentFirst ==
    GotTask =>
        /\ AgentIndexes(lastResponse.result.history) = {}
               => lastOutcome = MessageOutcome(lastResponse.result.status)
        /\ AgentIndexes(lastResponse.result.history) # {}
               => lastOutcome = MessageOutcome(LastAgentMessage(lastResponse.result.history))

HasDigit(t) == \E i \in 1..Len(t) : isdigit(t[i])

\* C14: send_prompt returns a Decimal only for a success envelope whose
\* selected message text holds a numeric substring; an error envelope
\* raises with the carried error message, and a response without a
\* message or with a text without a number raises: no value is returned
C14_ValueOnlyFromNumericSuccess ==
    lastResponse.kind # "none" =>
        /\ lastOutcome.ok =>
               /\ lastResponse.kind = "success"
               /\ SelectMessage(lastResponse.result) # NoMessage
               /\ HasDigit(SelectedText)
        /\ lastResponse.kind = "error" =>
               /\ ~lastOutcome.ok
               /\ lastOutcome.err = <<"Remote agent error: ", lastResponse.message>>
        /\ (lastResponse.kind = "success" /\ SelectMessage(lastResponse.result) = NoMessage)
               => ~lastOutcome.ok
        /\ (lastResponse.kind = "success" /\ ~HasDigit(SelectedText))
               => ~lastOutcome.ok
        /\ ~lastOutcome.ok => lastOutcome.val = NoDecimal
        /\ \A c \in Callers : callerPc[c] = "returned" => _client

\* a call has just ended on an error envelope
C14_Witness ==
    /\ lastResponse = ErrorResponse("boom")
    /\ \E c \in Callers : callerPc[c] = "raised"

(***************************************************************************)
(* Concurrent callers of one client instance.                              *)
(***************************************************************************)
\* the callers between sending the request and receiving the response
InFlight == {c \in Callers : callerPc[c] = "sending"}

\* C15: at most one call of a client instance is in flight at a time
C15_OneCallInFlight == Cardinality(InFlight) <= 1

\* C16: the agent card is fetched and the client built at most once per
\* instance, also when two calls start before the first fetch has ended
C16_DiscoveryAtMostOnce == clientBuilds <= 1

\* the part of C16 the code keeps: a call that starts when the client is
\* established does not fetch the card again
EstablishedClientReused ==
    [][\A c \in Callers :
          (_client /\ callerPc[c] = "idle") => callerPc'[c] \in {"idle", "sending"}]_vars


(***************************************************************************)
(* Bringing the servers up and down.                                       *)
(***************************************************************************)
\* the names of the handles stop_uvicorn was called for, in order
LogNames == [i \in 1..Len(stopLog) |-> stopLog[i].name]

\* the states of a task that is done
Done == {"finished", "cancelled", "raised"}

\* a call of start has just raised out of its except branch
StartFailed == expResult = "start_failed" /\ startPc = "idle"

\* C17: when bringing up a server fails, the servers started before it in
\* that call are stopped in reverse start order before the failure is
\* raised to the caller; afterwards no server runs, the handle set is
\* empty and the Experiment is not started
C17_FailedStartRollsBack ==
    /\ StartFailed =>
           /\ \A n \in ServerNames :
                  task[n] # "running" /\ servers[n] \notin {"starting", "serving"}
           /\ LogNames = Rev(started)
           /\ _handles = <<>>
           /\ ~_started
           /\ ~_host_client
    /\ startPc = "rollback" => expResult = "none"

\* three servers were up when the fourth failed, and a stop raised
C17_Witness ==
    /\ StartFailed
    /\ Len(started) = 3
    /\ \E i \in 1..Len(stopLog) : stopLog[i].outcome = "raised"

\* the server whose start_uvicorn Experiment.start awaits
Polling == ServerOrder[Len(started) + 1]

\* start is where it was: no return, no exception, no further server, no
\* stop of an earlier one
StartStalls ==
    /\ startPc' = "starting"
    /\ started' = started
    /\ _handles' = _handles
    /\ _started' = _started
    /\ expResult' = expResult
    /\ \A n \in ServerNames \ {Polling} : task'[n] = task[n] /\ servers'[n] = servers[n]
    /\ should_exit' = should_exit
    /\ waitOn' = waitOn
    /\ stopLog' = stopLog

\* C18: start_uvicorn returns its handle only once the server reports
\* started, and waits without bound: while the flag is false (also when
\* the serve task has ended with an error) start_uvicorn neither returns
\* nor raises, and start neither goes on to later servers nor rolls back
C18_StartWaitsForReadiness ==
    [][/\ (startPc = "starting" /\ servers[Polling] # "serving") => StartStalls
       /\ Len(started') > Len(started) =>
              /\ servers[Polling] = "serving"
              /\ started' = Append(started, Polling)]_vars

\* the serve task of the second or a later server has ended with an error
\* while start polls for it
C18_Witness ==
    /\ startPc = "starting"
    /\ Len(started) >= 1
    /\ task[Polling] = "raised"
    /\ servers[Polling] = "starting"

\* C19: stop_uvicorn requests graceful shutdown before it waits, sets
\* force_exit only when the task timed out or ended with an exception, and
\* whenever it has returned or raised the task of the handle is done
C19_GracefulThenForced ==
    /\ waitOn # NoHandle => should_exit[waitOn] /\ ~force_exit[waitOn]
    /\ \A n \in Handles :
           /\ force_exit[n] => should_exit[n] /\ task[n] \in {"cancelled", "raised"}
           /\ task[n] = "cancelled" => force_exit[n]
           /\ (task[n] = "raised" /\ should_exit[n]) => force_exit[n]
    /\ \A i \in 1..Len(stopLog) :
           /\ task[stopLog[i].name] \in Done
           /\ should_exit[stopLog[i].name]
           /\ stopLog[i].name # waitOn

\* one stop ended gracefully and another by timeout
C19_Witness ==
    \E i, j \in 1..Len(stopLog) :
        /\ task[stopLog[i].name] = "finished" /\ ~force_exit[stopLog[i].name]
        /\ task[stopLog[j].name] = "cancelled" /\ force_exit[stopLog[j].name]

\* the outcome of the calls of stop_uvicorn for the handles of S: return
\* after a graceful end and after a timeout, the task's exception raised
\* again, after the cleanup, when the task ended with one
StopOutcomeFor(S) ==
    \A i \in 1..Len(stopLog) :
        stopLog[i].name \in S =>
            /\ task[stopLog[i].name] = "finished" => stopLog[i].outcome = "returned"
            /\ task[stopLog[i].name] = "cancelled" => stopLog[i].outcome = "returned"
            /\ task[stopLog[i].name] = "raised" =>
                   /\ stopLog[i].outcome = "raised"
                   /\ stopLog[i].exc = "task error"
                   /\ force_exit[stopLog[i].name]

\* C20: stop_uvicorn returns when the task finishes in time, returns
\* without raising after a timeout (the task cancelled, the cancellation
\* suppressed), and raises the task's own exception again, after the
\* cleanup, when the task ended with one
C20_StopOutcome == StopOutcomeFor(Handles)

\* the part of C20 the code keeps: stop_uvicorn of test.py
StopOutcomeOfTestPy == StopOutcomeFor(TestNames)

\* the part of C20 the code keeps for stop_uvicorn of servers.py: all but
\* the outcome of a timeout, which is a raised TimeoutError
StopOutcomeOfServersPy ==
    \A i \in 1..Len(stopLog) :
        stopLog[i].name \in ServerNames =>
            /\ task[stopLog[i].name] = "finished" => stopLog[i].outcome = "returned"
            /\ task[stopLog[i].name] = "cancelled" =>
                   stopLog[i].outcome = "raised" /\ stopLog[i].exc = "TimeoutError"
            /\ task[stopLog[i].name] = "raised" =>
                   /\ stopLog[i].outcome = "raised"
                   /\ stopLog[i].exc = "task error"
                   /\ force_exit[stopLog[i].name]


(***************************************************************************)
(* The life cycle of the Experiment.                                       *)
(***************************************************************************)
\* the handles stop has called stop_uvicorn for so far, in order: those
\* whose stop has ended and the one stop_uvicorn is waiting on
StopsBegun == LogNames \o (IF waitOn = NoHandle THEN <<>> ELSE <<waitOn>>)

\* seq is the order of start read backwards, as far as seq goes
ReverseOfStart(seq) ==
    /\ Len(seq) <= Len(ServerOrder)
    /\ \A i \in 1..Len(seq) : seq[i] = ServerOrder[Len(ServerOrder) + 1 - i]

\* C21: Experiment.stop stops the handles in the reverse of the order of
\* start (host, subtraction, addition, mcp), one at a time: a stop begins
\* only when every stop before it has ended, so the handles begun are the
\* ones ended plus at most the one waited on, and the handles left are the
\* ones started before them; the host client is closed before the first
\* stop, and the environment is still overridden until the call ends, when
\* every handle has been stopped
C21_ReverseOrderTeardown ==
    /\ stopPc = "stopping" =>
          /\ ~_host_client
          /\ ReverseOfStart(StopsBegun)
          /\ _handles = SubSeq(ServerOrder, 1, Len(ServerOrder) - Len(StopsBegun))
          /\ _env_overrides # <<>>
          /\ env = ApplyOverrides([env |-> env, overrides |-> <<>>], StartOverrides).env
    /\ expResult = "stopped" =>
          /\ Len(LogNames) = Len(ServerOrder)
          /\ ReverseOfStart(LogNames)
          /\ _env_overrides = <<>>

\* stop is waiting for addition after the stops of host and subtraction
\* have ended, one of them with an exception
C21_Witness ==
    /\ stopPc = "stopping"
    /\ waitOn = "addition"
    /\ LogNames = <<"host", "subtraction">>
    /\ \E i \in 1..Len(stopLog) : stopLog[i].outcome = "raised"


\* what a call of start or stop can act on: the servers and their tasks,
\* the handle set, the host client, the environment and its record
Servers == <<servers, task, should_exit, force_exit, waitOn, stopLog, started, startPc, stopPc>>

Lifecycle == <<_started, _handles, _host_client, env, _env_overrides>>

\* C22: start on a started Experiment and stop on an Experiment that is not
\* started (never started, or stopped) are no-ops: the step starts and stops
\* no server and leaves every environment key, the override record and the
\* handle set as they are
C22_StartStopIdempotent ==
    [][(StartNoop \/ StopNoop) => UNCHANGED <<Servers, Lifecycle>>]_vars

\* start has returned at once on a started Experiment whose four servers
\* are up
C22_Witness ==
    /\ expResult = "start_noop"
    /\ _started /\ _handles = ServerOrder
    /\ startPc = "idle"


\* a call of start has raised after it applied its overrides
StartRaisedAfterOverrides ==
    /\ expResult \in {"start_failed", "build_failed"}
    /\ startPc = "idle"

\* C24: when start fails after it has overridden an environment key, while
\* it builds an application or while it starts a server, the caller finds
\* every key at the value it had before the call and the override record
\* empty
C24_FailedStartRestoresEnv ==
    StartRaisedAfterOverrides => env = env_at_start /\ _env_overrides = <<>>

\* the half of C24 the except branch of start covers: a start that fails
\* while it starts a server leaves an empty override record and every key
\* at the value the record held for it
ServerStartFailureRestoresEnv ==
    expResult = "start_failed" /\ startPc = "idle" =>
        /\ _env_overrides = <<>>
        /\ env \in InitialEnvs


\* a call of stop on a started Experiment has returned
Stopped == expResult = "stopped" /\ stopPc = "idle"

\* C23: after a start that succeeded and the stop that followed it, every
\* key of the environment has the value it had before that start (an absent
\* key is absent again), the override record and the handle set are empty
\* and the Experiment is as before its first start; in every cycle
C23_EnvRoundTrip ==
    Stopped =>
        /\ env = env_at_start
        /\ _env_overrides = <<>>
        /\ _handles = <<>>
        /\ ~_started /\ ~_host_client

\* what stop does restore: the values the override record holds, which are
\* those of before the first call of start that applied overrides
StopRestoresRecordedValues ==
    Stopped =>
        /\ env \in InitialEnvs
        /\ _env_overrides = <<>>
        /\ _handles = <<>>
        /\ ~_started /\ ~_host_client


\* C25: evaluate reaches the host only in the started window: a run of the
\* host is in progress or has ended only on an Experiment that is started
\* and has its host client, and a call of evaluate that raised the state
\* error (before the first start, after a failed start, while start is in
\* progress, after stop) has sent nothing: no planner call, no remote
\* call, no event
C25_EvaluateOnlyWhenStarted ==
    /\ RunActive => _started /\ _host_client
    /\ pc = "state_error" =>
          /\ plannerCalls = 0
          /\ calls = <<>>
          /\ events = <<>>

\* evaluate has raised the state error while start is bringing the servers
\* up, two of them serving already
C25_Witness ==
    /\ pc = "state_error"
    /\ startPc # "idle" /\ ~_started
    /\ Len(started) = 2
    /\ calls = <<>>


\* the Experiment has released what start acquired
Released ==
    /\ \A n \in ServerNames : task[n] \in Done
    /\ _handles = <<>>
    /\ _env_overrides = <<>>
    /\ ~_started

\* __aexit__, which is one call of stop on the started Experiment, has ended
ScopeLeft == expResult \in {"stopped", "stop_failed"} /\ stopPc = "idle"

\* C26: when the scope of a started Experiment has been left, every server
\* is stopped, the handle set and the override record are empty and the
\* Experiment is not started, also when the close of the host client or the
\* stop of a server failed on the way
C26_ScopeReleases == ScopeLeft => Released

\* the release where it is only the stop of a server that fails: stop has
\* gone through every handle and released everything
ReleasedWhenServerStopFails ==
    Stopped /\ (\E i \in 1..Len(stopLog) : stopLog[i].outcome = "raised") => Released


\* neither the configuration nor the environment holds a credential
NoCredential == cfg_llm_api_key = None /\ env["LLM_API_KEY"] = None

\* C27: without a credential in the configuration and in the environment
\* start raises the configuration error before it does anything else: no
\* key is ever overridden, no server launched, and the Experiment is never
\* started
C27_NoCredentialNoStart ==
    NoCredential =>
        /\ ~_started /\ startPc = "idle"
        /\ _env_overrides = <<>>
        /\ env \in InitialEnvs
        /\ \A n \in ServerNames : servers[n] = "none" /\ task[n] = "none"
        /\ expResult \in {"none", "config_error", "stop_noop"}

\* start has raised the configuration error
C27_Witness ==
    /\ NoCredential
    /\ expResult = "config_error"


\* C28: a handle whose stop failed (its task did not end within the timeout
\* or ended with an error) makes Experiment.stop fail: stop returns
\* normally only when every call of stop_uvicorn has returned
C28_StopFailurePropagates ==
    Stopped => \A i \in 1..Len(stopLog) : stopLog[i].outcome = "returned"


(***************************************************************************)
(* Cancellation.                                                           *)
(***************************************************************************)
\* C29: a cancellation request to the host puts exactly one message, the
\* fixed acknowledgement, on the queue of the request and changes nothing
\* else: the run in progress keeps its position, its plan, its remote calls
\* and its events, so it goes on as it would without the request
C29_CancelOnlyAcknowledges ==
    [][cancel_queue' # cancel_queue =>
          /\ cancel_queue' = Append(cancel_queue, CancelAck)
          /\ UNCHANGED <<runVars, expVars, cliVars>>]_vars

\* a run with a remote call has completed and the acknowledgement of a
\* cancellation request is on the queue
C29_Witness ==
    /\ cancel_queue = <<CancelAck>>
    /\ pc = "completed"
    /\ Len(calls) >= 1


(***************************************************************************)
(* Canonical text.                                                         *)
(***************************************************************************)
\* the text has a digit at least, no exponent, and when it has a point, no
\* zero and no point at its end
CanonicalShape(t) ==
    /\ t # <<>>
    /\ ~Contains(t, "E") /\ ~Contains(t, "e")
    /\ Contains(t, ".") => t[Len(t)] \notin {"0", "."}

\* the values of the run that format_decimal renders: the running value
\* and the operands and results of the remote calls
RenderedValues ==
    {current} \cup {calls[i].lhs : i \in 1..Len(calls)}
              \cup {calls[i].rhs : i \in 1..Len(calls)}
              \cup {calls[i].result : i \in {j \in 1..Len(calls) : calls[j].status = "returned"}}

\* C30: format_decimal renders every zero as "0", the negative zero a
\* leading minus before 0 gives included, and every value without trailing
\* zeros after a point, without a trailing point, without an exponent and
\* never as the empty text
C30_CanonicalText ==
    \A v \in RenderedValues :
        /\ CanonicalShape(format_decimal(v))
        /\ IsZero(v) => format_decimal(v) = <<"0">>

\* the part of C30 that holds: the shape of every rendered text, and "0"
\* for the zero that carries no minus sign
CanonicalButForNegativeZero ==
    \A v \in RenderedValues :
        /\ CanonicalShape(format_decimal(v))
        /\ IsZero(v) /\ v.sign = 0 => format_decimal(v) = <<"0">>
        /\ IsZero(v) /\ v.sign = 1 => format_decimal(v) = <<"-", "0">>


\* C38: a handle whose stop fails does not keep stop from the handles that
\* remain: when stop has returned, stop_uvicorn has been called for every
\* server start recorded, the handle set is empty and the Experiment is not
\* started
C38_StopReachesEveryHandle ==
    Stopped =>
        /\ \A n \in ServerNames : \E i \in 1..Len(stopLog) : stopLog[i].name = n
        /\ _handles = <<>>
        /\ ~_started

\* stop has returned although the first handle it stopped, the host, raised
C38_Witness ==
    /\ Stopped
    /\ Len(stopLog) = Len(ServerOrder)
    /\ stopLog[1].name = "host" /\ stopLog[1].outcome = "raised"


(***************************************************************************)
(* The token list of the fallback.                                         *)
(***************************************************************************)
\* odd length, numbers at the odd places and the four operators at the
\* even ones
Alternates(t) ==
    /\ Len(t) % 2 = 1
    /\ \A k \in 1..Len(t) :
          IF k % 2 = 1 THEN t[k].isnum
          ELSE ~t[k].isnum /\ t[k].op \in {"+", "-", "*", "/"}

\* the places of the expression that hold one of + - * /
OperatorChars(e) == {i \in 1..Len(e) : e[i] \in {"+", "-", "*", "/"}}

\* the places that hold a digit or a dot
NumberChars(e) == {i \in 1..Len(e) : isdigit(e[i]) \/ e[i] = "."}

\* the sign characters in front of the first number
LeadingSigns(e) == {i \in OperatorChars(e) : \A j \in NumberChars(e) : i < j}

OperatorTokens(t) == {k \in 1..Len(t) : ~t[k].isnum}

ThreePlusMinusTwo == <<"3", " ", "+", " ", "-", "2">>

\* C34: a token list the tokenizer returns has odd length and alternates
\* number, operator, ..., number; only the signs in front of the first
\* number go into a number, every later + or - is an operator token (so
\* "3 + -2" is rejected); and _fallback_parse never runs past the end of
\* the list: it returns a plan or None, it does not raise
C34_TokensAlternate ==
    /\ _tokenize_expression(expression).ok =>
          /\ Alternates(_tokenize_expression(expression).tokens)
          /\ Cardinality(OperatorTokens(_tokenize_expression(expression).tokens))
                = Cardinality(OperatorChars(expression) \ LeadingSigns(expression))
    /\ _fallback_parse(expression).kind # "raise"
    /\ expression = ThreePlusMinusTwo => ~_tokenize_expression(expression).ok

\* "3 + -2" went to the fallback and the run ended as a decomposition
\* failure
C34_Witness ==
    /\ expression = ThreePlusMinusTwo
    /\ plannerReply.kind = "text"
    /\ pc = "returned"
    /\ calls = <<>>


(***************************************************************************)
(* When the fallback is used.                                              *)
(***************************************************************************)
\* the planner has been asked and _decompose_with_llm has ended
Decomposed == plannerReply.kind \in {"raise", "text", "json"}

\* the run ended as a decomposition failure
EndedUndecomposed ==
    /\ pc = "returned"
    /\ LastEvent.kind = "decompose_error"
    /\ plan = NoPlan
    /\ calls = <<>>

\* C35: the plan of the run is the planner's when its reply is a valid
\* plan, whatever the tokenizer makes of the expression; it is the
\* fallback's when the reply is no JSON or fails validation (a failure
\* when the fallback gives none); and when the planner call itself raises
\* the run ends as a decomposition failure and the fallback's plan is not
\* used, also for an expression the tokenizer accepts
C35_FallbackOnlyForBadReply ==
    Decomposed =>
        IF plannerReply.kind = "raise" THEN EndedUndecomposed
        ELSE IF ReplyIsValidPlan(plannerReply) THEN plan = plannerReply.data /\ pc # "returned"
        ELSE IF _fallback_parse(expression).kind = "plan"
             THEN plan = _fallback_parse(expression).plan /\ pc # "returned"
             ELSE EndedUndecomposed

\* the planner call raised for an expression the fallback would have
\* planned, and the run ended as a decomposition failure
C35_Witness ==
    /\ plannerReply.kind = "raise"
    /\ _fallback_parse(expression).kind = "plan"
    /\ Len(_fallback_parse(expression).plan.steps) >= 1
    /\ EndedUndecomposed

\* the event of step k: emitted with the result of call k, which returned
StepEventOf(k) ==
    /\ events[k + 2].kind = "step"
    /\ events[k + 2].step = k
    /\ calls[k].step = k
    /\ calls[k].status = "returned"
    /\ events[k + 2].text = StepText(k, calls[k].lhs, calls[k].op, calls[k].rhs, calls[k].result)
    /\ calls[k].issuedAt = k + 1

LastResult ==
    IF plan.steps = <<>> THEN plan.initial_value ELSE calls[Len(calls)].result

\* C32: a completed run over a plan of N steps has emitted, in this order,
\* the planning event, the plan announcement, the N step events of steps
\* 1..N (call k is issued after event k + 1 and has returned when event
\* k + 2, its step event, is emitted) and one completed event with the
\* canonical text of the last result (of initial_value when N = 0); with
\* task and context ids these are status events and only the last one is
\* marked final; in no run is an event emitted after one marked final.
C32_CompletedRunEventOrder ==
    /\ pc = "completed" =>
          /\ Len(events) = Len(plan.steps) + 3
          /\ Len(calls) = Len(plan.steps)
          /\ events[1].kind = "planning"
          /\ events[2].kind = "plan"
          /\ events[2].text = PlanText(plan)
          /\ \A k \in 1..Len(plan.steps) : StepEventOf(k)
          /\ LastEvent.kind = "result"
          /\ LastEvent.text = format_decimal(LastResult)
          /\ \A i \in 1..Len(events) :
                 events[i].type = IF hasIds THEN "status" ELSE "message"
          /\ hasIds => LastEvent.final /\ LastEvent.state = "completed"
    /\ \A i \in 1..Len(events) : events[i].final => i = Len(events) /\ pc \in Terminal

C32_Witness ==
    /\ pc = "completed"
    /\ hasIds
    /\ expression = TenMinusThreePlusTwo
    /\ Len(plan.steps) = 2
    /\ Len(events) = 5
    /\ LastEvent.final
    /\ LastEvent.text = <<"9">>

(***************************************************************************)
(* HostClient.evaluate: the reading of the host's result.                  *)
(***************************************************************************)
MessageIndexes(evs) == {i \in 1..Len(evs) : evs[i].type = "message"}

\* the agent message that carries the text of an event
EventMessage(e) == Message("agent", <<e.text>>)

\* payload.result for the events of a run that returned: the first plain
\* message enqueued, otherwise the task, whose status message is that of
\* the last status event and whose history holds the user's message and
\* the messages of the earlier status events
HostResult(input, evs) ==
    IF MessageIndexes(evs) # {}
    THEN MessageResult(EventMessage(evs[SetMin(MessageIndexes(evs))]))
    ELSE TaskResult(<<Message("user", <<input>>)>>
                        \o [i \in 1..(Len(evs) - 1) |-> EventMessage(evs[i])],
                    EventMessage(evs[Len(evs)]))

\* outputs.append(text) unless the text is empty or repeats the last one
AppendNew(outputs, text) ==
    IF text # <<>> /\ (IF outputs = <<>> THEN TRUE ELSE outputs[Len(outputs)] # text)
    THEN Append(outputs, text)
    ELSE outputs

RECURSIVE AgentTexts(_, _)
\* the loop of _collect_messages over the history
AgentTexts(history, outputs) ==
    IF history = <<>> THEN outputs
    ELSE AgentTexts(Tail(history),
                    IF Head(history).role # "agent" THEN outputs
                    ELSE AppendNew(outputs, _message_to_text(Head(history))))

CollectHistoryOnly(result) ==
    IF result.isTask THEN AgentTexts(result.history, <<>>)
    ELSE IF result.message.role = "agent" THEN <<_message_to_text(result.message)>>
    ELSE <<>>

_collect_messages(result) ==
    IF result.isTask
    THEN IF result.status = NoMessage THEN AgentTexts(result.history, <<>>)
         ELSE AppendNew(AgentTexts(result.history, <<>>), _message_to_text(result.status))
    ELSE IF result.message.role = "agent" THEN <<_message_to_text(result.message)>>
    ELSE <<>>

FinalText(ok, text) == [ok |-> ok, text |-> text]

\* _extract_final_text: ok is FALSE for the RuntimeError
_extract_final_text(result, messages) ==
    IF result.isTask /\ result.status # NoMessage /\ _message_to_text(result.status) # <<>>
    THEN FinalText(TRUE, _message_to_text(result.status))
    ELSE IF ~result.isTask /\ _message_to_text(result.message) # <<>>
    THEN FinalText(TRUE, _message_to_text(result.message))
    ELSE IF messages # <<>> THEN FinalText(TRUE, messages[Len(messages)])
    ELSE FinalText(FALSE, <<>>)

Unsigned(t) == IF t # <<>> /\ t[1] \in SignSet THEN Tail(t) ELSE t

\* Decimal(text) of a whole text: an optional sign, digits and at most one
\* dot; InvalidOperation otherwise
DecimalOfWhole(t) ==
    IF /\ \A i \in 1..Len(Unsigned(t)) : isdigit(Unsigned(t)[i]) \/ Unsigned(t)[i] = "."
       /\ DecimalOfText(Unsigned(t)).ok
    THEN ExtractRes(TRUE, Dec(IF t[1] = "-" THEN 1 ELSE 0,
                              DecimalOfText(Unsigned(t)).val.int,
                              DecimalOfText(Unsigned(t)).val.exp))
    ELSE ExtractRes(FALSE, NoDecimal)

\* the number _parse_final_value takes from one text: the whole stripped
\* text as a Decimal, else the last match of the number pattern
NumberIn(text) ==
    IF DecimalOfWhole(strip(text)).ok THEN DecimalOfWhole(strip(text))
    ELSE IF MatchStarts(text) # {} THEN ExtractRes(TRUE, LastNumber(text))
    ELSE ExtractRes(FALSE, NoDecimal)

RECURSIVE LastNumberOf(_)
\* the loop of _parse_final_value over reversed(messages)
LastNumberOf(messages) ==
    IF messages = <<>> THEN ExtractRes(FALSE, NoDecimal)
    ELSE IF NumberIn(messages[Len(messages)]).ok THEN NumberIn(messages[Len(messages)])
    ELSE LastNumberOf(SubSeq(messages, 1, Len(messages) - 1))

_parse_final_value(final_text, messages) ==
    IF NumberIn(final_text).ok THEN NumberIn(final_text) ELSE LastNumberOf(messages)

\* a HostExecution, or the text of the error raised in its place
HostExecution(ok, final_value, messages, err) ==
    [ok |-> ok, final_value |-> final_value, messages |-> messages, err |-> err]

HostFailure(err) == HostExecution(FALSE, NoDecimal, <<>>, err)

\* HostClient.evaluate from payload.result on
HostClient_evaluate(result) ==
    IF ~_extract_final_text(result, _collect_messages(result)).ok
    THEN HostFailure("Host agent response did not include any text output")
    ELSE IF ~_parse_final_value(_extract_final_text(result, _collect_messages(result)).text,
                                _collect_messages(result)).ok
    THEN HostFailure("Unable to determine numeric result from agent messages")
    ELSE HostExecution(TRUE,
                       _parse_final_value(
                           _extract_final_text(result, _collect_messages(result)).text,
                           _collect_messages(result)).val,
                       _collect_messages(result), "")

\* what the caller of Experiment.evaluate gets for the run that just ended:
\* an execute that raised reaches the client as a JSON-RPC error response
HostOutcome ==
    IF pc = "raised" THEN HostFailure("Host agent error")
    ELSE HostClient_evaluate(HostResult(user_input, events))

\* the run ended without a result: decomposition failed or a step failed
RunFailed ==
    \/ pc \in {"raised", "failed"}
    \/ pc = "returned" /\ LastEvent.kind = "decompose_error"

\* C36: a host run that ended in a failure is never handed to the caller of
\* evaluate as an outcome with a numeric final_value.
C36_FailedRunIsNoValue ==
    (hasIds /\ RunFailed) => ~HostOutcome.ok

SameValue(a, b) == IsZero(DecSub(a, b))

EventTexts == [i \in 1..Len(events) |-> events[i].text]

\* C31: for a run that completed (the request carrying task and context
\* ids, as every request through the host's endpoint does) evaluate returns
\* an outcome whose final_value is the value of the text of the terminal
\* status event, the run's last result, and whose messages are the texts of
\* the run's events in the order of emission, the last one parsing to that
\* same value.
C31_CompletedRunOutcome ==
    (hasIds /\ pc = "completed") =>
        /\ HostOutcome.ok
        /\ HostOutcome.final_value = DecimalOfWhole(LastEvent.text).val
        /\ DecimalOfWhole(LastEvent.text).ok
        /\ SameValue(HostOutcome.final_value, current)
        /\ HostOutcome.messages = EventTexts
        /\ NumberIn(HostOutcome.messages[Len(HostOutcome.messages)]).val
               = HostOutcome.final_value

C31_Witness ==
    /\ hasIds /\ pc = "completed"
    /\ expression = TenMinusThreePlusTwo
    /\ HostOutcome.ok
    /\ HostOutcome.final_value = Dec(0, <<9>>, 0)
    /\ Len(HostOutcome.messages) = 5

(***************************************************************************)
(* One MCPToolAgentExecutor: the calls of execute on it, its runner's lock *)
(* and the agent behind it.  Every await is a point where another call may *)
(* run.                                                                    *)
(***************************************************************************)
\* the user inputs of the calls of execute
WorkerInputs == {<<>>, <<" ", " ">>, AddPrompt(<<"1">>, <<"2">>).text}

\* new_agent_text_message with the text; kind names the branch of execute
WorkerMessage(kind, text) == [type |-> "message", kind |-> kind, text |-> text]

\* the trace handle_task builds in the call c
TraceOf(c) == <<c>>

\* execute for a blank input: the prompt request, the runner is not used
WorkerExecuteBlank ==
    \E c \in Callers, input \in WorkerInputs :
        /\ workerPc[c] = "idle"
        /\ strip(input) = <<>>
        /\ workerInput' = [workerInput EXCEPT ![c] = input]
        /\ workerEvents' = [workerEvents EXCEPT ![c] =
               <<WorkerMessage("prompt", <<"Please provide an expression to evaluate.">>)>>]
        /\ workerPc' = [workerPc EXCEPT ![c] = "returned"]
        /\ UNCHANGED <<_lock, _initialized, _trace, shutdownPc, workerTrace>>
        /\ UNCHANGED <<expVars, runVars, cliVars, cancel_queue, ovVars>>

\* execute for an expression, up to the lock of run
WorkerExecuteBegin ==
    \E c \in Callers, input \in WorkerInputs :
        /\ workerPc[c] = "idle"
        /\ strip(input) # <<>>
        /\ workerInput' = [workerInput EXCEPT ![c] = input]
        /\ workerPc' = [workerPc EXCEPT ![c] = "locking"]
        /\ UNCHANGED <<_lock, _initialized, _trace, shutdownPc, workerEvents, workerTrace>>
        /\ UNCHANGED <<expVars, runVars, cliVars, cancel_queue, ovVars>>

RunAcquireUnlocked ==
    \E c \in Callers :
        /\ workerPc[c] = "locking"
        /\ _lock' = {c}
        /\ workerPc' = [workerPc EXCEPT ![c] =
                            IF _initialized THEN "handling" ELSE "initializing"]
        /\ UNCHANGED <<_initialized, _trace, shutdownPc, workerInput, workerEvents, workerTrace>>
        /\ UNCHANGED <<expVars, runVars, cliVars, cancel_queue, ovVars>>

\* run enters `async with self._lock`; initialize returns at once for an
\* agent that is initialised
RunAcquire ==
    \E c \in Callers :
        /\ workerPc[c] = "locking"
        /\ _lock = Unlocked
        /\ _lock' = {c}
        /\ workerPc' = [workerPc EXCEPT ![c] =
                            IF _initialized THEN "handling" ELSE "initializing"]
        /\ UNCHANGED <<_initialized, _trace, shutdownPc, workerInput, workerEvents, workerTrace>>
        /\ UNCHANGED <<expVars, runVars, cliVars, cancel_queue, ovVars>>

\* initialize has its session, its tools and its graph
InitializeDone ==
    \E c \in Callers :
        /\ workerPc[c] = "initializing"
        /\ _initialized' = TRUE
        /\ workerPc' = [workerPc EXCEPT ![c] = "handling"]
        /\ UNCHANGED <<_lock, _trace, shutdownPc, workerInput, workerEvents, workerTrace>>
        /\ UNCHANGED <<expVars, runVars, cliVars, cancel_queue, ovVars>>

\* initialize raises (no connection, no tool of the name): run leaves the
\* lock, execute catches the exception and reports it as a text message
InitializeRaises ==
    \E c \in Callers :
        /\ workerPc[c] = "initializing"
        /\ _lock' = Unlocked
        /\ workerEvents' = [workerEvents EXCEPT ![c] =
               <<WorkerMessage("failed", <<"Failed to process request: ",
                                           "No MCP tools available for LangGraph agent">>)>>]
        /\ workerPc' = [workerPc EXCEPT ![c] = "returned"]
        /\ UNCHANGED <<_initialized, _trace, shutdownPc, workerInput, workerTrace>>
        /\ UNCHANGED <<expVars, runVars, cliVars, cancel_queue, ovVars>>

\* handle_task returns: it stored its trace, run copies the agent's trace,
\* leaves the lock and execute reports the formatted result
HandleTaskReturns ==
    \E c \in Callers :
        /\ workerPc[c] = "handling"
        /\ _trace' = TraceOf(c)
        /\ workerTrace' = [workerTrace EXCEPT ![c] = _trace']
        /\ _lock' = Unlocked
        /\ workerEvents' = [workerEvents EXCEPT ![c] =
               <<WorkerMessage("result", <<"Result: ", "3", "\nSteps:\n">>)>>]
        /\ workerPc' = [workerPc EXCEPT ![c] = "returned"]
        /\ UNCHANGED <<_initialized, shutdownPc, workerInput>>
        /\ UNCHANGED <<expVars, runVars, cliVars, cancel_queue, ovVars>>

HandleTaskRaisesUncaught ==
    \E c \in Callers :
        /\ workerPc[c] = "handling"
        /\ _lock' = Unlocked
        /\ workerPc' = [workerPc EXCEPT ![c] = "raised"]
        /\ UNCHANGED <<_initialized, _trace, shutdownPc, workerInput, workerEvents, workerTrace>>
        /\ UNCHANGED <<expVars, runVars, cliVars, cancel_queue, ovVars>>

\* handle_task raises (the graph failed): the agent's trace stays as it
\* was, run leaves the lock, execute reports the exception as a text message
HandleTaskRaises ==
    \E c \in Callers :
        /\ workerPc[c] = "handling"
        /\ _lock' = Unlocked
        /\ workerEvents' = [workerEvents EXCEPT ![c] =
               <<WorkerMessage("failed", <<"Failed to process request: ",
                                           "LangGraph execution failed for payload ">>
                                         \o workerInput[c])>>]
        /\ workerPc' = [workerPc EXCEPT ![c] = "returned"]
        /\ UNCHANGED <<_initialized, _trace, shutdownPc, workerInput, workerTrace>>
        /\ UNCHANGED <<expVars, runVars, cliVars, cancel_queue, ovVars>>

\* MCPToolAgentExecutor.shutdown is called
ShutdownBegin ==
    /\ shutdownPc = "idle"
    /\ shutdownPc' = "locking"
    /\ UNCHANGED <<_lock, _initialized, _trace, workerPc, workerInput, workerEvents, workerTrace>>
    /\ UNCHANGED <<expVars, runVars, cliVars, cancel_queue, ovVars>>

\* shutdown of the runner enters `async with self._lock` and awaits the
\* close of the agent's exit stack
ShutdownAcquire ==
    /\ shutdownPc = "locking"
    /\ _lock = Unlocked
    /\ _lock' = {ShutdownCall}
    /\ shutdownPc' = "closing"
    /\ UNCHANGED <<_initialized, _trace, workerPc, workerInput, workerEvents, workerTrace>>
    /\ UNCHANGED <<expVars, runVars, cliVars, cancel_queue, ovVars>>

\* the agent's shutdown resets it and the lock is left
ShutdownEnds ==
    /\ shutdownPc = "closing"
    /\ _initialized' = FALSE
    /\ _trace' = NoTrace
    /\ _lock' = Unlocked
    /\ shutdownPc' = "done"
    /\ UNCHANGED <<workerPc, workerInput, workerEvents, workerTrace>>
    /\ UNCHANGED <<expVars, runVars, cliVars, cancel_queue, ovVars>>

InitWorker == ExperimentUnused /\ ClientIdle

NextWorker ==
    \/ WorkerExecuteBlank
    \/ WorkerExecuteBegin
    \/ RunAcquire
    \/ InitializeDone
    \/ InitializeRaises
    \/ HandleTaskReturns
    \/ HandleTaskRaises
    \/ ShutdownBegin
    \/ ShutdownAcquire
    \/ ShutdownEnds

SpecWorker == InitWorker /\ [][NextWorker]_vars

\* the call is between the agent's initialisation and the capture of the
\* trace
InRun(c) == workerPc[c] \in {"initializing", "handling"}

\* C37: every call of execute that is over has emitted exactly one event,
\* an agent text message, and none raises: the prompt request for a blank
\* input, the 'Failed to process request' text when the run raised, the
\* formatted result otherwise; a call still under way has emitted nothing.
C37_WorkerEmitsOneMessage ==
    \A c \in Callers :
        /\ workerPc[c] # "raised"
        /\ workerPc[c] # "returned" => workerEvents[c] = <<>>
        /\ workerPc[c] = "returned" =>
              /\ Len(workerEvents[c]) = 1
              /\ workerEvents[c][1].type = "message"
              /\ workerEvents[c][1].kind =
                     IF strip(workerInput[c]) = <<>> THEN "prompt"
                     ELSE IF workerTrace[c] = NoTrace THEN "failed"
                     ELSE "result"
              /\ workerEvents[c][1].kind = "failed" =>
                     workerEvents[c][1].text[1] = "Failed to process request: "

C37_Witness ==
    /\ workerPc[1] = "returned"
    /\ workerEvents[1][1].kind = "failed"
    /\ _initialized
    /\ workerPc[2] = "returned"
    /\ workerEvents[2][1].kind = "prompt"

\* C33: the calls of run on one runner are serialised by its lock: at most
\* one call is between the agent's initialisation and the capture of the
\* trace, and it holds the lock; the trace returned to a call is the one
\* its own handle_task built; shutdown closes the agent only while it holds
\* the lock, with no run inside.
C33_RunsSerialised ==
    /\ Cardinality({c \in Callers : InRun(c)}) <= 1
    /\ \A c \in Callers :
          /\ InRun(c) => _lock = {c}
          /\ workerTrace[c] \in {NoTrace, TraceOf(c)}
          /\ (workerPc[c] = "returned" /\ workerEvents[c][1].kind = "result")
                => workerTrace[c] = TraceOf(c)
    /\ shutdownPc = "closing" =>
          /\ _lock = {ShutdownCall}
          /\ \A c \in Callers : ~InRun(c)

C33_Witness ==
    /\ workerTrace[1] = TraceOf(1)
    /\ workerPc[2] = "handling"
    /\ _lock = {2}
    /\ _trace = TraceOf(1)
    /\ shutdownPc = "locking"

(***************************************************************************)
(* Two calls of Experiment.start that overlap: the second one begins while *)
(* the first one is suspended in the polling loop of start_uvicorn.        *)
(***************************************************************************)
\* the second call from its check of _started, which the first call has
\* not set yet, to its first call of start_uvicorn: the overrides again and
\* a second set of applications
Start2Begin ==
    /\ startPc = "starting" /\ ~_started /\ start2Pc = "idle"
    /\ ~(cfg_llm_api_key = None /\ env["LLM_API_KEY"] = None)
    /\ LET st == ApplyOverrides([env |-> env, overrides |-> _env_overrides], StartOverrides)
       IN  /\ env' = st.env
           /\ _env_overrides' = st.overrides
           /\ clientUrl' = HostClientUrls(st.env)
    /\ started2' = <<>>
    /\ start2Pc' = "launch"
    /\ UNCHANGED <<cfg_llm_api_key, env_at_start, _handles, _host_client, _started, startPc,
                   started, servers, expResult, hdlVars, servers2>>
    /\ UNCHANGED <<runVars, cliVars, cancel_queue, wkVars>>

\* start_uvicorn of the second call up to its first sleep: a second server
\* object for the same name and port
Start2Launch ==
    /\ start2Pc = "launch"
    /\ servers2' = [servers2 EXCEPT ![ServerOrder[Len(started2) + 1]] = "starting"]
    /\ start2Pc' = "starting"
    /\ UNCHANGED <<expVars, started2>>
    /\ UNCHANGED <<runVars, cliVars, cancel_queue, wkVars>>

\* the server of the second call binds the port, which the server of the
\* first call has not bound: that one's serve() ends at its own bind
Start2ServeStarts ==
    /\ \E n \in ServerNames :
        /\ servers2[n] = "starting" /\ servers[n] # "serving"
        /\ servers2' = [servers2 EXCEPT ![n] = "serving"]
        /\ task' = [task EXCEPT ![n] = IF task[n] = "running" THEN "raised" ELSE task[n]]
    /\ UNCHANGED <<cfg_llm_api_key, env_at_start, env, _env_overrides, _handles, _host_client,
                   _started, startPc, started, servers, clientUrl, expResult, should_exit,
                   force_exit, waitOn, stopLog, reversedLeft, stopPc, testPc, test_servers>>
    /\ UNCHANGED <<start2Pc, started2>>
    /\ UNCHANGED <<runVars, cliVars, cancel_queue, wkVars>>

\* the server of the second call finds the port bound by the server of the
\* first call: its serve() ends and the polling of the second call goes on
Start2ServeFails ==
    /\ \E n \in ServerNames :
        /\ servers2[n] = "starting" /\ servers[n] = "serving"
        /\ servers2' = [servers2 EXCEPT ![n] = "failed"]
    /\ UNCHANGED <<expVars, start2Pc, started2>>
    /\ UNCHANGED <<runVars, cliVars, cancel_queue, wkVars>>

\* the polling loop of the second call sees server.started; the call
\* appends the handle and goes on to the next server or finishes
Start2Ready ==
    /\ start2Pc = "starting"
    /\ servers2[ServerOrder[Len(started2) + 1]] = "serving"
    /\ started2' = Append(started2, ServerOrder[Len(started2) + 1])
    /\ IF Len(started2) + 1 < Len(ServerOrder)
       THEN /\ start2Pc' = "launch"
            /\ UNCHANGED <<_handles, _host_client, _started, expResult>>
       ELSE /\ _handles' = _handles \o Append(started2, ServerOrder[Len(started2) + 1])
            /\ _host_client' = TRUE
            /\ _started' = TRUE
            /\ start2Pc' = "done"
            /\ expResult' = "started"
    /\ UNCHANGED <<cfg_llm_api_key, env_at_start, env, _env_overrides, startPc, started, servers,
                   clientUrl, hdlVars, servers2>>
    /\ UNCHANGED <<runVars, cliVars, cancel_queue, wkVars>>

NextOverlap ==
    \/ StartBegin
    \/ LaunchServer
    \/ ServeStarts
    \/ ServeTaskFails
    \/ ServerReady
    \/ Start2Begin
    \/ Start2Launch
    \/ Start2ServeStarts
    \/ Start2ServeFails
    \/ Start2Ready

SpecOverlap == Init /\ [][NextOverlap]_vars

\* the handles of the name in Experiment._handles
HandlesOf(n) == {i \in 1..Len(_handles) : _handles[i] = n}

\* C39: with two overlapping calls of start no server of the cluster is
\* started by both calls, and the handle set holds at most one handle per
\* server name.
C39_OverlappingStartsLaunchOnce ==
    \A n \in ServerNames :
        /\ ~(servers[n] # "none" /\ servers2[n] # "none")
        /\ Cardinality(HandlesOf(n)) <= 1

====
